---- MODULE Spec2Model ----
(***************************************************************************)
(* Model of the scheduling engine of scheduler_app.py: TimeRange, User,    *)
(* Shift and Scheduler (schedule_shifts, _assign_shift_balanced,           *)
(* _find_best_slot).  One run of schedule_shifts is a sequence of steps:   *)
(* the copy/count/partition prologue, one step per fixed shift, one step   *)
(* per flexible shift, and the return.                                     *)
(***************************************************************************)
EXTENDS Integers, Sequences, FiniteSets, TLC

VARIABLES
    users,            \* Scheduler.users: name -> User record
    conflict_pairs,   \* the conflicts list handed to Scheduler.__init__
    conflicts,        \* Scheduler.conflicts: the set built by __init__
    heap,             \* the Shift objects: reference -> Shift record
    shifts,           \* the caller's list (references) handed to schedule_shifts
    scheduled_shifts, \* the working list (references)
    shifts_worked,    \* name -> number of shifts counted for the user
    fixed_shifts,     \* positions in scheduled_shifts of the FIXED shifts
    flexible_shifts,  \* positions in scheduled_shifts of the FLEXIBLE shifts
    fi,               \* fixed shifts already processed
    xi,               \* flexible shifts already processed
    pc,               \* "start", "running", "done", or "raised" (an exception
                      \* left schedule_shifts)
    best_slots,       \* per position: what _find_best_slot returned last
    result,           \* the list schedule_shifts returned (references)
    shown_error,      \* the message of the last messagebox.showerror, or ""
    calls,            \* the calls made so far, in order: those of
                      \* schedule_shifts as <<method, position of the shift in
                      \* the working list>>, a call of User.is_available as
                      \* <<"is_available", arguments, value returned>>; of
                      \* the application only the handler that ran last, when
                      \* it deleted or renamed a user: <<handler, name(s),
                      \* whether a shift listed the user, whether a pair did>>,
                      \* or loaded the sample data: <<handler>>
    shift_counter,    \* SchedulerApp.shift_counter: the shifts numbered so far
    sample_steps      \* 0 until Load Sample Data is chosen; then 1 + the
                      \* handlers run since it was last chosen

vars == <<users, conflict_pairs, conflicts, heap, shifts, scheduled_shifts,
          shifts_worked, fixed_shifts, flexible_shifts, fi, xi, pc, best_slots,
          result, shown_error, calls, shift_counter, sample_steps>>

(***************************************************************************)
(* Bounds of the inputs.                                                   *)
(***************************************************************************)
MaxCap == 2
MaxRequired == 2

(***************************************************************************)
(* Data model.                                                             *)
(***************************************************************************)
FIXED == "fixed"
FLEXIBLE == "flexible"
ShiftType == {FIXED, FLEXIBLE}

NoSlot == <<>>

TimeRange(sh, sm, eh, em) ==
    [start_hour |-> sh, start_minute |-> sm, end_hour |-> eh, end_minute |-> em]

to_minutes(tr) ==
    <<tr.start_hour * 60 + tr.start_minute, tr.end_hour * 60 + tr.end_minute>>

overlaps(a, b) ==
    LET m1 == to_minutes(a)
        m2 == to_minutes(b)
    IN  m1[1] < m2[2] /\ m2[1] < m1[2]

\* User.__post_init__: an empty availability becomes all day, every day.
post_init(availability) ==
    IF DOMAIN availability = {}
    THEN [day \in 0..6 |-> <<TimeRange(0, 0, 24, 0)>>]
    ELSE availability

\* Faulty variant: the start and the end of the request are looked up
\* separately, each in any window of the day.
available_by_start_and_end(user, day, start_hour, start_minute, end_hour, end_minute) ==
    /\ day \in DOMAIN user.availability
    /\ \E k \in 1..Len(user.availability[day]) :
         /\ to_minutes(user.availability[day][k])[1] <= start_hour * 60 + start_minute
         /\ start_hour * 60 + start_minute < to_minutes(user.availability[day][k])[2]
    /\ \E k \in 1..Len(user.availability[day]) :
         /\ to_minutes(user.availability[day][k])[1] < end_hour * 60 + end_minute
         /\ end_hour * 60 + end_minute <= to_minutes(user.availability[day][k])[2]

\* Faulty variant: a window that merely overlaps the request counts as covering it.
available_on_overlap(user, day, start_hour, start_minute, end_hour, end_minute) ==
    /\ day \in DOMAIN user.availability
    /\ \E k \in 1..Len(user.availability[day]) :
         /\ to_minutes(user.availability[day][k])[1] < end_hour * 60 + end_minute
         /\ start_hour * 60 + start_minute < to_minutes(user.availability[day][k])[2]

is_available(user, day, start_hour, start_minute, end_hour, end_minute) ==
    IF day \notin DOMAIN user.availability THEN FALSE
    ELSE IF user.availability[day] = <<>> THEN FALSE
    ELSE LET check_start == start_hour * 60 + start_minute
             check_end == end_hour * 60 + end_minute
             ranges == user.availability[day]
         IN  \E k \in 1..Len(ranges) :
                 /\ to_minutes(ranges[k])[1] <= check_start
                 /\ to_minutes(ranges[k])[2] >= check_end

duration_minutes(shift) ==
    (shift.end_hour * 60 + shift.end_minute)
        - (shift.start_hour * 60 + shift.start_minute)

to_time_range(shift) ==
    TimeRange(shift.start_hour, shift.start_minute,
              shift.end_hour, shift.end_minute)

overlaps_with(shift, other) ==
    IF shift.day # other.day THEN FALSE
    ELSE overlaps(to_time_range(shift), to_time_range(other))

Range(seq) == {seq[k] : k \in 1..Len(seq)}

(***************************************************************************)
(* Scheduler.                                                              *)
(***************************************************************************)
\* Scheduler.__init__: both orders of every pair are registered.
\* Faulty variant: only the order given is registered.
one_way_init(pairs) == {<<p[1], p[2]>> : p \in pairs}

scheduler_init(pairs) ==
    {<<p[1], p[2]>> : p \in pairs} \cup {<<p[2], p[1]>> : p \in pairs}

has_conflict(cf, assigned, candidate) ==
    \E k \in 1..Len(assigned) : <<assigned[k], candidate>> \in cf

\* Faulty variant: the shift itself is not skipped.
overlap_including_self(user_name, shift, all_shifts) ==
    \E k \in 1..Len(all_shifts) :
        /\ user_name \in Range(all_shifts[k].assigned_users)
        /\ overlaps_with(shift, all_shifts[k])

\* Faulty variant: the overlap check never reports an overlap.
never_overlaps(user_name, shift, all_shifts) == FALSE

check_user_overlap(user_name, shift, all_shifts) ==
    \E k \in 1..Len(all_shifts) :
        /\ all_shifts[k].id # shift.id
        /\ user_name \in Range(all_shifts[k].assigned_users)
        /\ overlaps_with(shift, all_shifts[k])

\* Faulty variant: a user whose counter equals the cap still passes.
available_at_cap(us, shift, sw, all_shifts) ==
    {name \in DOMAIN us :
        /\ ~(sw[name] > us[name].max_shifts_per_week)
        /\ is_available(us[name], shift.day, shift.start_hour,
                        shift.start_minute, shift.end_hour, shift.end_minute)
        /\ ~check_user_overlap(name, shift, all_shifts)}

\* Faulty variant: the weekly cap is not checked.
available_ignoring_cap(us, shift, sw, all_shifts) ==
    {name \in DOMAIN us :
        /\ is_available(us[name], shift.day, shift.start_hour,
                        shift.start_minute, shift.end_hour, shift.end_minute)
        /\ ~check_user_overlap(name, shift, all_shifts)}

\* The users get_available_users returns (their order is decided by the sort
\* that follows in _assign_shift_balanced).
get_available_users(us, shift, sw, all_shifts) ==
    {name \in DOMAIN us :
        /\ ~(sw[name] >= us[name].max_shifts_per_week)
        /\ is_available(us[name], shift.day, shift.start_hour,
                        shift.start_minute, shift.end_hour, shift.end_minute)
        /\ ~check_user_overlap(name, shift, all_shifts)}

\* Faulty variant: the existing assignments are not counted.
count_from_zero(us, all_shifts) == [name \in DOMAIN us |-> 0]

\* Faulty variant: every listed id gets a counter, in the roster or not.
count_every_name(us, all_shifts) ==
    [name \in DOMAIN us
               \cup UNION {Range(all_shifts[k].assigned_users) :
                              k \in 1..Len(all_shifts)} |->
        Cardinality({k \in 1..Len(all_shifts) :
                        name \in Range(all_shifts[k].assigned_users)})]

\* schedule_shifts, lines 415-422: the counter starts at the number of listings
\* of every roster member; ids outside the roster are not counted.
count_assigned(us, all_shifts) ==
    [name \in DOMAIN us |->
        Cardinality(UNION {
            {<<k, j>> : j \in {j \in 1..Len(all_shifts[k].assigned_users) :
                                  all_shifts[k].assigned_users[j] = name}} :
            k \in 1..Len(all_shifts)})]

\* Faulty variant: the conflict with the assignees already kept is not checked.
keeps_despite_conflict(us, cf, shift, all_shifts, available_users, valid_assigned, user) ==
    /\ user \in DOMAIN us
    /\ ~check_user_overlap(user, shift, all_shifts)
    /\ user \in available_users

\* One pass of the loop of lines 463-475 over an existing assignee.
keeps_assignee(us, cf, shift, all_shifts, available_users, valid_assigned, user) ==
    /\ user \in DOMAIN us
    /\ ~check_user_overlap(user, shift, all_shifts)
    /\ user \in available_users
    /\ ~has_conflict(cf, valid_assigned, user)

RECURSIVE validate_assigned(_, _, _, _, _, _, _)
validate_assigned(us, cf, shift, all_shifts, available_users, rest, valid_assigned) ==
    IF rest = <<>> THEN valid_assigned
    ELSE validate_assigned(us, cf, shift, all_shifts, available_users, Tail(rest),
            IF keeps_assignee(us, cf, shift, all_shifts, available_users,
                              valid_assigned, Head(rest))
            THEN Append(valid_assigned, Head(rest))
            ELSE valid_assigned)

total_slots_needed(all_shifts) ==
    LET RECURSIVE sum(_)
        sum(k) == IF k = 0 THEN 0 ELSE all_shifts[k].required_staff + sum(k - 1)
    IN  sum(Len(all_shifts))

\* Faulty variant: an empty roster is not replaced by 1.
len_users(us) == Cardinality(DOMAIN us)

\* Line 491: len(self.users) if self.users else 1
num_users(us) == IF DOMAIN us # {} THEN Cardinality(DOMAIN us) ELSE 1

\* Line 492, total_slots_needed / num_users: a zero divisor raises
\* ZeroDivisionError.
division_raises(divisor) == divisor = 0

\* balance_score, scaled by 100 * num_users to stay in the integers:
\* (target_per_user - current) * 10 + (max_allowed - current) + random_factor,
\* where random_factor = random.random() * 0.1 is drawn in hundredths,
\* jitter[user] / 100 with jitter[user] < 10.
balance_score(us, sw, all_shifts, jitter, user) ==
    LET current == sw[user]
        max_allowed == us[user].max_shifts_per_week
        n == num_users(us)
        below_target_n == total_slots_needed(all_shifts) - current * n
        capacity == max_allowed - current
    IN  100 * (below_target_n * 10 + capacity * n) + jitter[user] * n

\* candidates.sort(key=balance_score, reverse=True)
RECURSIVE sort_candidates(_, _, _, _, _)
sort_candidates(us, sw, all_shifts, jitter, candidates) ==
    IF candidates = {} THEN <<>>
    ELSE LET top == CHOOSE c \in candidates : \A d \in candidates :
                        balance_score(us, sw, all_shifts, jitter, c)
                            >= balance_score(us, sw, all_shifts, jitter, d)
         IN  <<top>> \o sort_candidates(us, sw, all_shifts, jitter,
                                        candidates \ {top})

\* Faulty variant: the loop does not stop at required_staff.
RECURSIVE fill_without_limit(_, _, _, _)
fill_without_limit(cf, required_staff, candidates, st) ==
    IF candidates = <<>> THEN st
    ELSE LET candidate == Head(candidates)
         IN  fill_without_limit(cf, required_staff, Tail(candidates),
                IF ~has_conflict(cf, st.assigned_users, candidate)
                THEN [assigned_users |-> Append(st.assigned_users, candidate),
                      shifts_worked |->
                          [st.shifts_worked EXCEPT ![candidate] = @ + 1]]
                ELSE st)

\* Faulty variant: the loop stops one assignee short of required_staff.
RECURSIVE fill_one_short(_, _, _, _)
fill_one_short(cf, required_staff, candidates, st) ==
    IF candidates = <<>> THEN st
    ELSE IF Len(st.assigned_users) >= required_staff - 1 THEN st
    ELSE LET candidate == Head(candidates)
         IN  fill_one_short(cf, required_staff, Tail(candidates),
                IF ~has_conflict(cf, st.assigned_users, candidate)
                THEN [assigned_users |-> Append(st.assigned_users, candidate),
                      shifts_worked |->
                          [st.shifts_worked EXCEPT ![candidate] = @ + 1]]
                ELSE st)

\* The loop of lines 509-514; st = [assigned_users, shifts_worked].
RECURSIVE fill_shift(_, _, _, _)
fill_shift(cf, required_staff, candidates, st) ==
    IF candidates = <<>> THEN st
    ELSE IF Len(st.assigned_users) >= required_staff THEN st
    ELSE LET candidate == Head(candidates)
         IN  fill_shift(cf, required_staff, Tail(candidates),
                IF ~has_conflict(cf, st.assigned_users, candidate)
                THEN [assigned_users |-> Append(st.assigned_users, candidate),
                      shifts_worked |->
                          [st.shifts_worked EXCEPT ![candidate] = @ + 1]]
                ELSE st)

\* _assign_shift_balanced on the shift at position i of all_shifts; the result
\* is the new working list, the new counter, and whether the call raised (the
\* retained assignees are written at line 477, before the division).
assign_shift_balanced(us, cf, i, sw, all_shifts, jitter) ==
    LET shift == all_shifts[i]
        available_users == get_available_users(us, shift, sw, all_shifts)
        valid_assigned == validate_assigned(us, cf, shift, all_shifts,
                              available_users, shift.assigned_users, <<>>)
        kept == [all_shifts EXCEPT ![i].assigned_users = valid_assigned]
        needed == shift.required_staff - Len(valid_assigned)
        candidates == get_available_users(us, kept[i], sw, kept)
                          \ Range(valid_assigned)
        ranked == sort_candidates(us, sw, kept, jitter, candidates)
        filled == fill_shift(cf, shift.required_staff, ranked,
                      [assigned_users |-> valid_assigned, shifts_worked |-> sw])
    IN  IF needed <= 0
        THEN [all_shifts |-> kept, shifts_worked |-> sw, raised |-> FALSE]
        ELSE IF division_raises(num_users(us))
        THEN [all_shifts |-> kept, shifts_worked |-> sw, raised |-> TRUE]
        ELSE [all_shifts |-> [kept EXCEPT ![i].assigned_users = filled.assigned_users],
              shifts_worked |-> filled.shifts_worked, raised |-> FALSE]

\* Lines 540-546: the test shift placed at a scanned candidate.
test_shift(shift, day, start_hour, start_minute, end_minutes) ==
    [shift EXCEPT !.day = day,
                  !.start_hour = start_hour, !.start_minute = start_minute,
                  !.end_hour = end_minutes \div 60, !.end_minute = end_minutes % 60]

\* Faulty variant: only the fixed shifts count as collisions.
overlap_with_fixed_only(shift, test, all_shifts) ==
    \E k \in 1..Len(all_shifts) :
        /\ all_shifts[k].id # shift.id
        /\ all_shifts[k].shift_type = FIXED
        /\ overlaps_with(test, all_shifts[k])

\* Faulty variant: only the shifts that have assignees count as collisions.
overlap_with_staffed_only(shift, test, all_shifts) ==
    \E k \in 1..Len(all_shifts) :
        /\ all_shifts[k].id # shift.id
        /\ all_shifts[k].assigned_users # <<>>
        /\ overlaps_with(test, all_shifts[k])

\* Lines 549-553.
has_overlap(shift, test, all_shifts) ==
    \E k \in 1..Len(all_shifts) :
        all_shifts[k].id # shift.id /\ overlaps_with(test, all_shifts[k])

\* Faulty variant: the staff at their cap are counted as well.
count_ignoring_cap(us, sw, test) ==
    Cardinality({name \in DOMAIN us :
        is_available(us[name], test.day, test.start_hour, test.start_minute,
                     test.end_hour, test.end_minute)})

\* Lines 559-566.
available_count(us, sw, test) ==
    Cardinality({name \in DOMAIN us :
        /\ ~(sw[name] >= us[name].max_shifts_per_week)
        /\ is_available(us[name], test.day, test.start_hour, test.start_minute,
                        test.end_hour, test.end_minute)})

\* Faulty variant: a candidate that equals the best score replaces it.
is_better_or_equal(count, required_staff, best_score) ==
    count >= required_staff /\ count >= best_score

\* Lines 569-570: whether the candidate replaces the best slot so far.
is_better(count, required_staff, best_score) ==
    count >= required_staff /\ count > best_score

\* The body of the innermost loop (lines 534-574) for one candidate start;
\* best = [slot, score] is the best slot so far.
try_slot(us, shift, sw, all_shifts, day, start_hour, start_minute, best) ==
    LET end_minutes == start_hour * 60 + start_minute + duration_minutes(shift)
        test == test_shift(shift, day, start_hour, start_minute, end_minutes)
        count == available_count(us, sw, test)
    IN  IF end_minutes > 24 * 60 THEN best
        ELSE IF has_overlap(shift, test, all_shifts) THEN best
        ELSE IF is_better(count, shift.required_staff, best.score)
        THEN [slot |-> <<day, start_hour, start_minute,
                         test.end_hour, test.end_minute>>,
              score |-> count]
        ELSE best

\* for start_hour in range(24): for start_minute in [0, 30]
RECURSIVE scan_hours(_, _, _, _, _, _, _)
scan_hours(us, shift, sw, all_shifts, day, start_hour, best) ==
    IF start_hour >= 24 THEN best
    ELSE \* (each best-so-far is bound as a value before the next pass uses it)
         CHOOSE last \in
             { scan_hours(us, shift, sw, all_shifts, day, start_hour + 1, at30) :
                 at30 \in
                   { try_slot(us, shift, sw, all_shifts, day, start_hour, 30, at00) :
                       at00 \in
                         { try_slot(us, shift, sw, all_shifts, day, start_hour, 0, b) :
                             b \in {best} } } } : TRUE

\* for day in range(7)
RECURSIVE scan_days(_, _, _, _, _, _)
scan_days(us, shift, sw, all_shifts, day, best) ==
    IF day >= 7 THEN best
    ELSE CHOOSE last \in
             { scan_days(us, shift, sw, all_shifts, day + 1, after) :
                 after \in { scan_hours(us, shift, sw, all_shifts, day, 0, b) :
                               b \in {best} } } : TRUE

\* Lines 531-533: the candidate starts the three loops go through.
slot_trials ==
    {<<day, start_hour, start_minute>> :
        day \in 0..6, start_hour \in 0..23, start_minute \in {0, 30}}

\* Faulty variant: the scan starts at the day the shift stands on.
find_slot_from_own_day(us, shift, sw, all_shifts) ==
    scan_days(us, shift, sw, all_shifts, shift.day,
              [slot |-> NoSlot, score |-> -1]).slot

\* _find_best_slot: <<day, start_hour, start_minute, end_hour, end_minute>> or
\* NoSlot (None).
find_best_slot(us, shift, sw, all_shifts) ==
    scan_days(us, shift, sw, all_shifts, 0, [slot |-> NoSlot, score |-> -1]).slot

\* Faulty variant: without a slot the shift is put at the first candidate.
move_or_first_slot(shift, best_slot) ==
    IF best_slot # NoSlot
    THEN [shift EXCEPT !.day = best_slot[1],
                       !.start_hour = best_slot[2], !.start_minute = best_slot[3],
                       !.end_hour = best_slot[4], !.end_minute = best_slot[5]]
    ELSE [shift EXCEPT !.day = 0, !.start_hour = 0, !.start_minute = 0,
                       !.end_hour = duration_minutes(shift) \div 60,
                       !.end_minute = duration_minutes(shift) % 60]

\* Faulty variant: the slot found is not taken.
stay_put(shift, best_slot) == shift

\* Lines 439-444: the flexible shift takes the slot found, if any.
move_to(shift, best_slot) ==
    IF best_slot # NoSlot
    THEN [shift EXCEPT !.day = best_slot[1],
                       !.start_hour = best_slot[2], !.start_minute = best_slot[3],
                       !.end_hour = best_slot[4], !.end_minute = best_slot[5]]
    ELSE shift

\* Faulty variant: the partition does not look at the kind.
RECURSIVE positions_of_any_kind(_, _, _)
positions_of_any_kind(all_shifts, kind, k) ==
    IF k > Len(all_shifts) THEN <<>>
    ELSE <<k>> \o positions_of_any_kind(all_shifts, kind, k + 1)

\* Faulty variant: the shifts of a kind are collected last to first.
RECURSIVE positions_of_reversed(_, _, _)
positions_of_reversed(all_shifts, kind, k) ==
    IF k > Len(all_shifts) THEN <<>>
    ELSE positions_of_reversed(all_shifts, kind, k + 1)
             \o (IF all_shifts[k].shift_type = kind THEN <<k>> ELSE <<>>)

\* Lines 425-430: the positions of the shifts of a kind, in list order.
RECURSIVE positions_of(_, _, _)
positions_of(all_shifts, kind, k) ==
    IF k > Len(all_shifts) THEN <<>>
    ELSE (IF all_shifts[k].shift_type = kind THEN <<k>> ELSE <<>>)
             \o positions_of(all_shifts, kind, k + 1)

(***************************************************************************)
(* Inputs: the rosters, conflict lists and shift lists a caller can hand   *)
(* to Scheduler(users, conflicts).schedule_shifts(shifts).                 *)
(***************************************************************************)
StaleName == "Z"

\* The availability mappings a user is constructed with.
AllWeek == <<>>    \* none given: __post_init__ fills in every day, all day
MonShort == (0 :> <<TimeRange(9, 0, 10, 30)>>)
MonSplit == (0 :> <<TimeRange(9, 0, 10, 0), TimeRange(10, 0, 11, 0)>>) @@ (1 :> <<>>)
MonTueNight == (0 :> <<TimeRange(0, 0, 1, 0)>>) @@ (1 :> <<TimeRange(0, 0, 1, 0)>>)
MonNight == (0 :> <<TimeRange(0, 0, 1, 0)>>)
TueNight == (1 :> <<TimeRange(0, 0, 1, 0)>>)

MkUser(name, cap, availability) ==
    [name |-> name, max_shifts_per_week |-> cap,
     availability |-> post_init(availability)]

\* place = <<day, start_hour, start_minute, end_hour, end_minute>>
MkShift(id, kind, place, required, assigned) ==
    [id |-> id, name |-> id, shift_type |-> kind,
     day |-> place[1], start_hour |-> place[2], start_minute |-> place[3],
     end_hour |-> place[4], end_minute |-> place[5],
     required_staff |-> required, assigned_users |-> assigned]

Mon0900 == <<0, 9, 0, 10, 0>>
Mon0930 == <<0, 9, 30, 10, 30>>
Mon1000 == <<0, 10, 0, 11, 0>>
Tue0900 == <<1, 9, 0, 10, 0>>

AssignedLists ==
    { <<>>, <<"A">>, <<"A", "B">>, <<"B", "A">>, <<StaleName, "B">> }

MkInput(us, pairs, list) == [users |-> us, conflict_pairs |-> pairs, shifts |-> list]

\* Two fixed shifts, two users (the inputs of this kind are drawn in Init).
FixedInput(ca, cb, aa, ab, pairs, r1, l1, p2, r2, l2) ==
    MkInput(("A" :> MkUser("A", ca, aa)) @@ ("B" :> MkUser("B", cb, ab)), pairs,
            << MkShift("s1", FIXED, Mon0900, r1, l1),
               MkShift("s2", FIXED, p2, r2, l2) >>)

\* A fixed shift and a flexible one, two users.
FlexibleInputs ==
    { MkInput(("A" :> MkUser("A", ca, av)) @@ ("B" :> MkUser("B", cb, av)), pairs,
              << MkShift("s1", FLEXIBLE, p1, r1, l1),
                 MkShift("s2", FIXED, Mon0900, 1, l2) >>) :
      ca \in 1..MaxCap, cb \in 1..MaxCap, av \in {AllWeek, MonShort},
      pairs \in { {}, {<<"A", "B">>} },
      p1 \in {Mon0930, Mon1000}, r1 \in 1..MaxRequired,
      l1 \in { <<>>, <<"A">>, <<"B", "A">> },
      l2 \in { <<>>, <<"A">>, <<"A", "B">> } }

\* Two flexible shifts around a fixed one, two users.
TwoFlexibleInputs ==
    { MkInput(("A" :> MkUser("A", ca, av)) @@ ("B" :> MkUser("B", MaxCap, av)), {},
              << MkShift("s1", FLEXIBLE, p1, 1, l1),
                 MkShift("s2", FIXED, Mon1000, 1, <<"B">>),
                 MkShift("s3", FLEXIBLE, p3, r3, l3) >>) :
      ca \in 1..MaxCap, av \in {AllWeek, MonShort},
      p1 \in {Mon0900, Tue0900}, l1 \in { <<>>, <<"A">> },
      p3 \in {Mon0900, Mon0930}, r3 \in 1..MaxRequired, l3 \in { <<>>, <<"A">> } }

\* One flexible shift, three users of whom two may be in conflict.
SlotInputs ==
    { MkInput(("A" :> MkUser("A", MaxCap, MonTueNight))
                  @@ ("B" :> MkUser("B", MaxCap, MonNight))
                  @@ ("C" :> MkUser("C", cc, TueNight)), pairs,
              << MkShift("s1", FLEXIBLE, Mon0900, r1, l1) >>) :
      cc \in 1..MaxCap,
      pairs \in { {}, {<<"A", "B">>}, {<<"C", "A">>} },
      r1 \in 1..MaxRequired, l1 \in { <<>>, <<"A">> } }

\* One flexible two-hour shift and staff who are available on Tuesday
\* afternoon only: a single user C, or users A and B whose windows share one
\* two-hour slot, with or without a fixed shift next to it.
TueAfternoon == (1 :> <<TimeRange(14, 0, 16, 0)>>)
TueLong == (1 :> <<TimeRange(14, 0, 17, 0)>>)

Mon0900to1100 == <<0, 9, 0, 11, 0>>
Tue1330to1530 == <<1, 13, 30, 15, 30>>
Tue1400to1600 == <<1, 14, 0, 16, 0>>
Tue1600to1700 == <<1, 16, 0, 17, 0>>
Sun2200to2400 == <<6, 22, 0, 24, 0>>

RelocationInputs ==
    { MkInput(("C" :> MkUser("C", cc, TueAfternoon)), {},
              << MkShift("s1", FLEXIBLE, p1, 1, l1) >>) :
      cc \in 1..MaxCap,
      p1 \in {Mon0900to1100, Tue1330to1530, Tue1400to1600, Sun2200to2400},
      l1 \in { <<>>, <<"C">> } }
    \cup
    { MkInput(("A" :> MkUser("A", ca, TueAfternoon))
                  @@ ("B" :> MkUser("B", cb, TueLong)), pairs,
              << MkShift("s1", FLEXIBLE, p1, r1, <<>>) >> \o rest) :
      ca \in 1..MaxCap, cb \in 1..MaxCap,
      pairs \in { {}, {<<"A", "B">>} },
      p1 \in {Mon0900to1100, Tue1400to1600}, r1 \in 1..MaxRequired,
      rest \in { <<>>, << MkShift("s2", FIXED, Tue1600to1700, 1, <<"B">>) >> } }

\* The boundary cases: an empty roster, an empty shift list, one user or a
\* conflicting pair, lists naming ids outside the roster.
EdgeRosters ==
    { [users |-> <<>>, conflict_pairs |-> {}] }
    \cup { [users |-> ("A" :> MkUser("A", ca, aa)), conflict_pairs |-> {}] :
              ca \in 1..MaxCap, aa \in {AllWeek, TueNight} }
    \cup { [users |-> ("A" :> MkUser("A", ca, aa)) @@ ("B" :> MkUser("B", 1, MonShort)),
            conflict_pairs |-> {<<"A", "B">>}] :
              ca \in 1..MaxCap, aa \in {AllWeek, TueNight} }
    \cup { [users |-> ("A" :> MkUser("A", 1, AllWeek)),
            conflict_pairs |-> {<<StaleName, "A">>}],
           [users |-> ("A" :> MkUser("A", 1, AllWeek)) @@ ("B" :> MkUser("B", 1, MonShort)),
            conflict_pairs |-> {<<"A", "B">>, <<"B", StaleName>>}] }

EdgeShiftLists ==
    { <<>> }
    \cup { << MkShift("s1", kind, Mon0900, r1, l1) >> :
              kind \in ShiftType, r1 \in 1..MaxRequired,
              l1 \in { <<>>, <<"A">>, <<StaleName>> } }
    \cup { << MkShift("s1", kind, Mon0900, MaxRequired, l1),
               MkShift("s2", FIXED, Mon0930, 1, l2) >> :
              kind \in ShiftType,
              l1 \in { <<>>, <<"A">> }, l2 \in { <<>>, <<"A">> } }

EdgeInputs ==
    { MkInput(roster.users, roster.conflict_pairs, list) :
        roster \in EdgeRosters, list \in EdgeShiftLists }

\* The largest weekly cap the user dialog offers (its spinbox goes from 1 to
\* this value).
MaxWeeklyCap == 21

\* Two users with caps from the whole range of the dialog, a shift that comes
\* unstaffed or staffed, and a fixed shift that one of them may already work.
RankCaps == {1, 2, 12, 13, MaxWeeklyCap}

RankingInputs ==
    { MkInput(("A" :> MkUser("A", ca, AllWeek)) @@ ("B" :> MkUser("B", cb, AllWeek)),
              {},
              << MkShift("s1", kind, Mon0900, r1, l1),
                 MkShift("s2", FIXED, Tue0900, 1, l2) >>) :
      ca \in RankCaps, cb \in RankCaps, kind \in ShiftType,
      r1 \in 1..MaxRequired, l1 \in { <<>>, <<"A">>, <<"B", "A">> },
      l2 \in { <<>>, <<"A">>, <<"B">> } }

\* The orders in which the random factors of one sort can come out: the
\* factors of the users, in hundredths, as pairwise different values.
Jitters(us) ==
    {j \in [DOMAIN us -> 0..(Cardinality(DOMAIN us) - 1)] :
        \A a, b \in DOMAIN us : a # b => j[a] # j[b]}

\* The Shift objects a list of references points to, and the heap after the
\* objects of a list were given new contents.
Deref(h, refs) == [k \in 1..Len(refs) |-> h[refs[k]]]

Store(h, refs, values) ==
    [r \in DOMAIN h |->
        IF \E k \in 1..Len(refs) : refs[k] = r
        THEN values[CHOOSE k \in 1..Len(refs) : refs[k] = r]
        ELSE h[r]]

\* Faulty variant: the working list holds the caller's objects.
alias_list(h, refs) == [refs |-> refs, heap |-> h]

\* Line 413, [copy.deepcopy(s) for s in shifts]: new objects with the same
\* contents, in the same order.
deepcopy_list(h, refs) ==
    LET n == Cardinality(DOMAIN h)
        copies == [k \in 1..Len(refs) |-> n + k]
    IN  [refs |-> copies,
         heap |-> [r \in 1..(n + Len(refs)) |->
                      IF r <= n THEN h[r] ELSE h[refs[r - n]]]]

\* Faulty variant: the fixed shifts are handed back first, then the flexible ones.
partitioned_list(scheduled, fixed, flexible) == fixed \o flexible

\* Line 447: the list handed back.
returned_list(scheduled, fixed, flexible) == scheduled

\* Scheduler(input.users, input.conflict_pairs) is constructed and
\* schedule_shifts(input.shifts) is about to run.
InitWith(input) ==
    /\ users = input.users
    /\ conflict_pairs = input.conflict_pairs
    /\ conflicts = scheduler_init(input.conflict_pairs)
    /\ heap = input.shifts
    /\ shifts = [k \in 1..Len(input.shifts) |-> k]
    /\ scheduled_shifts = <<>>
    /\ shifts_worked = <<>>
    /\ fixed_shifts = <<>>
    /\ flexible_shifts = <<>>
    /\ fi = 0
    /\ xi = 0
    /\ pc = "start"
    /\ best_slots = <<>>
    /\ result = <<>>
    /\ shown_error = ""
    /\ calls = <<>>
    /\ shift_counter = 0
    /\ sample_steps = 0

EdgeInit == \E input \in EdgeInputs : InitWith(input)

RelocationInit ==
    \E input \in RelocationInputs \cup TwoFlexibleInputs \cup SlotInputs :
        InitWith(input)

RankingInit == \E input \in RankingInputs : InitWith(input)

Init ==
    \/ \E ca \in 1..MaxCap, cb \in 1..MaxCap :
       \E aa \in {AllWeek, MonShort}, ab \in {AllWeek, MonSplit} :
       \E pairs \in { {}, {<<"A", "B">>}, {<<"B", "A">>} } :
       \E r1 \in 1..MaxRequired, l1 \in AssignedLists \ {<<StaleName, "B">>} :
       \E p2 \in {Mon0930, Mon1000, Tue0900} :
       \E r2 \in 1..MaxRequired, l2 \in AssignedLists :
           InitWith(FixedInput(ca, cb, aa, ab, pairs, r1, l1, p2, r2, l2))
    \/ \E input \in FlexibleInputs \cup TwoFlexibleInputs \cup SlotInputs :
           InitWith(input)

\* schedule_shifts, lines 412-430: copy, count, partition.
Start ==
    /\ pc = "start"
    /\ LET copied == deepcopy_list(heap, shifts)
           working == Deref(copied.heap, copied.refs)
       IN  /\ heap' = copied.heap
           /\ scheduled_shifts' = copied.refs
           /\ shifts_worked' = count_assigned(users, working)
           /\ fixed_shifts' = positions_of(working, FIXED, 1)
           /\ flexible_shifts' = positions_of(working, FLEXIBLE, 1)
           /\ best_slots' = [k \in 1..Len(working) |-> NoSlot]
    /\ pc' = "running"
    /\ UNCHANGED <<sample_steps, shift_counter, shown_error, calls, users, conflict_pairs, conflicts, shifts,
                   fi, xi, result>>

\* schedule_shifts, lines 433-434: the next fixed shift.
ScheduleFixed ==
    /\ pc = "running"
    /\ fi < Len(fixed_shifts)
    /\ \E jitter \in Jitters(users) :
         LET r == assign_shift_balanced(users, conflicts, fixed_shifts[fi + 1],
                     shifts_worked, Deref(heap, scheduled_shifts), jitter)
         IN  /\ heap' = Store(heap, scheduled_shifts, r.all_shifts)
             /\ shifts_worked' = r.shifts_worked
             /\ pc' = IF r.raised THEN "raised" ELSE pc
             /\ fi' = IF r.raised THEN fi ELSE fi + 1
    /\ calls' = Append(calls, <<"_assign_shift_balanced", fixed_shifts[fi + 1]>>)
    /\ UNCHANGED <<sample_steps, shift_counter, shown_error, users, conflict_pairs, conflicts, shifts,
                   scheduled_shifts, fixed_shifts, flexible_shifts, xi, best_slots,
                   result>>

\* schedule_shifts, lines 437-445: the next flexible shift.
ScheduleFlexible ==
    /\ pc = "running"
    /\ fi = Len(fixed_shifts)
    /\ xi < Len(flexible_shifts)
    /\ \E i \in {flexible_shifts[xi + 1]} :
       \E all_shifts \in {Deref(heap, scheduled_shifts)} :
       \E best_slot \in {find_best_slot(users, all_shifts[i], shifts_worked,
                                         all_shifts)} :
           /\ best_slots' = [best_slots EXCEPT ![i] = best_slot]
           /\ \E jitter \in Jitters(users) :
                LET moved == [all_shifts EXCEPT ![i] = move_to(@, best_slot)]
                    r == assign_shift_balanced(users, conflicts, i, shifts_worked,
                                               moved, jitter)
                IN  /\ heap' = Store(heap, scheduled_shifts, r.all_shifts)
                    /\ shifts_worked' = r.shifts_worked
                    /\ pc' = IF r.raised THEN "raised" ELSE pc
                    /\ xi' = IF r.raised THEN xi ELSE xi + 1
    /\ calls' = calls \o << <<"_find_best_slot", flexible_shifts[xi + 1]>>,
                           <<"_assign_shift_balanced", flexible_shifts[xi + 1]>> >>
    /\ UNCHANGED <<sample_steps, shift_counter, shown_error, users, conflict_pairs, conflicts, shifts,
                   scheduled_shifts, fixed_shifts, flexible_shifts, fi, result>>

\* schedule_shifts, line 447.
Return ==
    /\ pc = "running"
    /\ fi = Len(fixed_shifts)
    /\ xi = Len(flexible_shifts)
    /\ result' = returned_list(scheduled_shifts,
                    [k \in 1..Len(fixed_shifts) |-> scheduled_shifts[fixed_shifts[k]]],
                    [k \in 1..Len(flexible_shifts) |->
                        scheduled_shifts[flexible_shifts[k]]])
    /\ pc' = "done"
    /\ UNCHANGED <<sample_steps, shift_counter, shown_error, calls, users, conflict_pairs, conflicts, heap,
                   shifts, scheduled_shifts, shifts_worked, fixed_shifts,
                   flexible_shifts, fi, xi, best_slots>>

Next == Start \/ ScheduleFixed \/ ScheduleFlexible \/ Return

Spec == Init /\ [][Next]_vars

\* Relocation of flexible shifts.
RelocationSpec == RelocationInit /\ [][Next]_vars

\* The boundary cases; a call that has started runs to its end (the loops of
\* schedule_shifts are the only steps, and nothing suspends them).
EdgeSpec == EdgeInit /\ [][Next]_vars /\ WF_vars(Next)

\* The ranking of the candidates, with caps from the whole range.
RankingSpec == RankingInit /\ [][Next]_vars

(***************************************************************************)
(* Construction of the data: User, TimeRange, Shift and Scheduler values   *)
(* as the dataclasses and Scheduler.__init__ build them from whatever they *)
(* are given (by a caller, or by DataManager from the saved files), and    *)
(* the shifts the Add Shift dialog lets through.                           *)
(***************************************************************************)
MaxBuilt == 2

Mon1000to0900 == <<0, 10, 0, 9, 0>>      \* end before start
Mon0900to0900 == <<0, 9, 0, 9, 0>>       \* end at start
Mon2300to2430 == <<0, 23, 0, 24, 30>>    \* end after 24:00

ShiftIds ==
    <<"shift_1", "shift_2", "shift_3", "shift_4", "shift_5", "shift_6", "shift_7",
      "shift_8", "shift_9">>

BuildWindows == {TimeRange(9, 0, 10, 0), TimeRange(10, 0, 9, 0)}
BuildPlaces == {Mon0900, Mon1000to0900, Mon0900to0900}
BuildPairs == { {}, {<<"A", "B">>}, {<<StaleName, "A">>} }

BuildInit ==
    /\ users = <<>>
    /\ conflict_pairs = {}
    /\ conflicts = {}
    /\ heap = <<>>
    /\ shifts = <<>>
    /\ scheduled_shifts = <<>>
    /\ shifts_worked = <<>>
    /\ fixed_shifts = <<>>
    /\ flexible_shifts = <<>>
    /\ fi = 0
    /\ xi = 0
    /\ pc = "build"
    /\ best_slots = <<>>
    /\ result = <<>>
    /\ shown_error = ""
    /\ calls = <<>>
    /\ shift_counter = 0
    /\ sample_steps = 0

\* User(name, max_shifts_per_week, {day: [TimeRange(...)]}): the dataclasses
\* take the values as given.
NewUser ==
    /\ pc = "build"
    /\ \E name \in {"A"} \ DOMAIN users : \E cap \in 1..MaxCap :
       \E window \in BuildWindows :
           users' = users @@ (name :> MkUser(name, cap, (0 :> <<window>>)))
    /\ UNCHANGED <<sample_steps, shift_counter, conflict_pairs, conflicts, heap, shifts, scheduled_shifts,
                   shifts_worked, fixed_shifts, flexible_shifts, fi, xi, pc,
                   best_slots, result, shown_error, calls>>

\* Scheduler(users, conflicts): __init__ stores the roster and both orders of
\* every pair, whatever ids the pairs name.
NewScheduler ==
    /\ pc = "build"
    /\ \E pairs \in BuildPairs :
         /\ conflict_pairs' = pairs
         /\ conflicts' = scheduler_init(pairs)
    /\ pc' = "built"
    /\ UNCHANGED <<sample_steps, shift_counter, users, heap, shifts, scheduled_shifts, shifts_worked,
                   fixed_shifts, flexible_shifts, fi, xi, best_slots, result,
                   shown_error, calls>>

\* Shift(id, name, shift_type, day, ..., required_staff): the dataclass takes
\* the values as given (so does Shift.from_dict); the application counts the
\* shifts it holds when it starts (line 690).
NewShift ==
    /\ Len(shifts) < MaxBuilt
    /\ \E kind \in ShiftType : \E place \in BuildPlaces : \E required \in 0..1 :
         heap' = Append(heap, MkShift(ShiftIds[Len(heap) + 1], kind, place,
                                      required, <<>>))
    /\ shifts' = Append(shifts, Len(heap) + 1)
    /\ shift_counter' = Len(shifts) + 1
    /\ UNCHANGED <<sample_steps, users, conflict_pairs, conflicts, scheduled_shifts,
                   shifts_worked, fixed_shifts, flexible_shifts, fi, xi, pc,
                   best_slots, result, shown_error, calls>>

\* ShiftDialog._save: the message it shows, or "" when it accepts the entries.
save_error(name, start_h, start_m, end_h, end_m) ==
    IF name = "" THEN "Shift name is required!"
    ELSE IF end_h = 24 /\ end_m # 0
    THEN "End time of 24:00 cannot have non-zero minutes!"
    ELSE IF end_h * 60 + end_m <= start_h * 60 + start_m
    THEN "End time must be after start time!"
    ELSE ""

\* The Save button of the Add Shift dialog, then _add_shift (lines 1418-1437).
SaveShiftDialog ==
    /\ Len(shifts) < MaxBuilt
    /\ \E name \in {"", "n"} : \E place \in BuildPlaces \cup {Mon2300to2430} :
       \E required \in 0..1 :
         LET error == save_error(name, place[2], place[3], place[4], place[5])
         IN  /\ shown_error' = error
             /\ heap' = IF error # "" THEN heap
                        ELSE Append(heap,
                                 [MkShift(ShiftIds[shift_counter + 1], FIXED, place,
                                          required, <<>>) EXCEPT !.name = name])
             /\ shifts' = IF error # "" THEN shifts
                          ELSE Append(shifts, Len(heap) + 1)
             /\ shift_counter' = IF error # "" THEN shift_counter
                                 ELSE shift_counter + 1
    /\ UNCHANGED <<sample_steps, users, conflict_pairs, conflicts, scheduled_shifts,
                   shifts_worked, fixed_shifts, flexible_shifts, fi, xi, pc,
                   best_slots, result, calls>>

BuildNext == NewUser \/ NewScheduler \/ NewShift \/ SaveShiftDialog

BuildSpec == BuildInit /\ [][BuildNext]_vars

(***************************************************************************)
(* Availability queries: a User is constructed with an availability        *)
(* mapping and is asked whether it is available for a day and a window.    *)
(***************************************************************************)
MonAdjacent == (0 :> <<TimeRange(9, 0, 12, 0), TimeRange(12, 0, 17, 0)>>)
MonOverlapping == (0 :> <<TimeRange(9, 0, 12, 30), TimeRange(12, 0, 17, 0)>>)
MonWhole == (0 :> <<TimeRange(9, 0, 17, 0)>>)
MonApart == (0 :> <<TimeRange(9, 0, 12, 0), TimeRange(13, 0, 17, 0)>>)
MonEmptyTueWhole == (0 :> <<>>) @@ (1 :> <<TimeRange(9, 0, 17, 0)>>)
TueWhole == (1 :> <<TimeRange(9, 0, 17, 0)>>)

AskedAvailabilities ==
    {AllWeek, MonAdjacent, MonOverlapping, MonWhole, MonApart, MonEmptyTueWhole,
     TueWhole, MonSplit}

\* The arguments <<day, start_hour, start_minute, end_hour, end_minute>>.
AskedWindows ==
    {w \in (0..2) \X {8, 9, 11, 12} \X {0, 30} \X {10, 12, 13, 17} \X {0, 30} :
        w[4] * 60 + w[5] > w[2] * 60 + w[3]}

AvailabilityInit ==
    /\ \E cap \in 1..MaxCap : \E availability \in AskedAvailabilities :
         users = ("A" :> MkUser("A", cap, availability))
    /\ conflict_pairs = {}
    /\ conflicts = {}
    /\ heap = <<>>
    /\ shifts = <<>>
    /\ scheduled_shifts = <<>>
    /\ shifts_worked = <<>>
    /\ fixed_shifts = <<>>
    /\ flexible_shifts = <<>>
    /\ fi = 0
    /\ xi = 0
    /\ pc = "ask"
    /\ best_slots = <<>>
    /\ result = <<>>
    /\ shown_error = ""
    /\ calls = <<>>
    /\ shift_counter = 0
    /\ sample_steps = 0

\* user.is_available(day, start_hour, start_minute, end_hour, end_minute)
IsAvailableCall ==
    /\ pc = "ask"
    /\ \E w \in AskedWindows :
         calls' = Append(calls,
                     <<"is_available", w,
                       is_available(users["A"], w[1], w[2], w[3], w[4], w[5])>>)
    /\ pc' = "asked"
    /\ UNCHANGED <<sample_steps, shift_counter, users, conflict_pairs, conflicts, heap, shifts, scheduled_shifts,
                   shifts_worked, fixed_shifts, flexible_shifts, fi, xi,
                   best_slots, result, shown_error>>

AvailabilityNext == IsAvailableCall

AvailabilitySpec == AvailabilityInit /\ [][AvailabilityNext]_vars

(***************************************************************************)
(* The application: SchedulerApp holds the roster (users), the conflict    *)
(* pairs (conflict_pairs: the dialog keeps a pair once, and nothing reads   *)
(* the order of the list) and the shifts (shifts, heap), and changes them   *)
(* through its handlers. The dialogs are modal and the handlers run on one  *)
(* thread, so a handler runs to its end before the next one starts; a       *)
(* handler that returns early (nothing selected, a dialog cancelled or      *)
(* refusing its entries) changes nothing and is not a step.                 *)
(***************************************************************************)
DefaultMaxShifts == 5
DefaultRequired == 2
Mon0900to1700 == <<0, 9, 0, 17, 0>>     \* the times the Add Shift dialog opens with

\* The most shifts added to data that started empty.
MaxShifts == 1

\* The most handlers run on the sample data after Load Sample Data.
MaxSampleSteps == 1

\* The names typed into the user dialog: new users are called A or B, and a
\* user is renamed to any free name. A user is added while no one is called
\* C, which keeps a roster that started empty at two.
TypedNames == {"A", "B", "C"}
NewNames == {"A", "B"}
SpareName == "C"

\* All names, in the order sorted() gives them.
NameOrder == <<"A", "Alice", "B", "Bob", "C", "Charlie", "Diana", "Eve">>

\* The handlers explored: all of them on data that started empty, and
\* MaxSampleSteps of them after each Load Sample Data.
WithinSession == sample_steps <= MaxSampleSteps

Handled == sample_steps' = IF sample_steps = 0 THEN 0 ELSE sample_steps + 1

\* _load_sample_data, lines 1586-1647.
SampleUsers ==
    ("Alice" :> MkUser("Alice", 4,
        (0 :> <<>>) @@ (1 :> <<TimeRange(9, 0, 17, 0)>>)
        @@ (2 :> <<TimeRange(9, 0, 17, 0)>>) @@ (3 :> <<TimeRange(9, 0, 17, 0)>>)
        @@ (4 :> <<TimeRange(9, 0, 17, 0)>>) @@ (5 :> <<TimeRange(10, 0, 14, 0)>>)
        @@ (6 :> <<>>)))
    @@ ("Bob" :> MkUser("Bob", 5,
        (0 :> <<TimeRange(8, 0, 20, 0)>>) @@ (1 :> <<TimeRange(8, 0, 20, 0)>>)
        @@ (2 :> <<TimeRange(8, 0, 20, 0)>>) @@ (3 :> <<TimeRange(8, 0, 20, 0)>>)
        @@ (4 :> <<TimeRange(8, 0, 20, 0)>>) @@ (5 :> <<>>) @@ (6 :> <<>>)))
    @@ ("Charlie" :> MkUser("Charlie", 3,
        (0 :> <<TimeRange(6, 0, 14, 0)>>) @@ (1 :> <<TimeRange(6, 0, 14, 0)>>)
        @@ (2 :> <<TimeRange(6, 0, 14, 0)>>) @@ (3 :> <<TimeRange(6, 0, 14, 0)>>)
        @@ (4 :> <<>>) @@ (5 :> <<TimeRange(8, 0, 16, 0)>>)
        @@ (6 :> <<TimeRange(8, 0, 16, 0)>>)))
    @@ ("Diana" :> MkUser("Diana", 4, AllWeek))
    @@ ("Eve" :> MkUser("Eve", 5,
        (0 :> <<TimeRange(12, 0, 22, 0)>>) @@ (1 :> <<TimeRange(12, 0, 22, 0)>>)
        @@ (2 :> <<TimeRange(12, 0, 22, 0)>>) @@ (3 :> <<TimeRange(12, 0, 22, 0)>>)
        @@ (4 :> <<TimeRange(12, 0, 22, 0)>>) @@ (5 :> <<TimeRange(10, 0, 22, 0)>>)
        @@ (6 :> <<TimeRange(10, 0, 22, 0)>>)))

\* _load_sample_data, lines 1650-1718.
SampleShifts ==
    << [MkShift("shift_1", FIXED, <<0, 9, 0, 12, 30>>, 2, <<>>)
            EXCEPT !.name = "Morning Reception"],
       [MkShift("shift_2", FIXED, <<0, 13, 0, 17, 0>>, 2, <<>>)
            EXCEPT !.name = "Afternoon Support"],
       [MkShift("shift_3", FLEXIBLE, <<2, 10, 0, 12, 0>>, 3, <<>>)
            EXCEPT !.name = "Team Meeting"],
       [MkShift("shift_4", FLEXIBLE, <<3, 14, 30, 16, 30>>, 2, <<>>)
            EXCEPT !.name = "Training Session"],
       [MkShift("shift_5", FIXED, <<4, 15, 0, 17, 0>>, 2, <<>>)
            EXCEPT !.name = "Weekly Review"],
       [MkShift("shift_6", FIXED, <<1, 18, 0, 22, 0>>, 2, <<>>)
            EXCEPT !.name = "Evening Shift"] >>

\* _load_sample_data, line 1722.
SampleConflicts == { <<"Alice", "Bob">> }

sorted_names(names) == SelectSeq(NameOrder, LAMBDA n : n \in names)

\* Faulty variant: the name stays where it is listed.
keep_name(assigned_users, name) == assigned_users

\* assigned_users.remove(name) under "if name in shift.assigned_users"
\* (lines 1366-1368 and 1399-1400): the first occurrence goes.
remove_name(assigned_users, name) ==
    IF name \notin Range(assigned_users) THEN assigned_users
    ELSE LET k == CHOOSE k \in 1..Len(assigned_users) :
                      /\ assigned_users[k] = name
                      /\ \A j \in 1..(k - 1) : assigned_users[j] # name
         IN  SubSeq(assigned_users, 1, k - 1)
                 \o SubSeq(assigned_users, k + 1, Len(assigned_users))

\* _edit_user, lines 1365-1369: the new name goes to the end of every list
\* that held the old one.
rename_assigned(assigned_users, name, new_name) ==
    IF name \in Range(assigned_users)
    THEN Append(remove_name(assigned_users, name), new_name)
    ELSE assigned_users

\* _edit_user, lines 1356-1364.
rename_pairs(pairs, name, new_name) ==
    { <<IF p[1] = name THEN new_name ELSE p[1],
        IF p[2] = name THEN new_name ELSE p[2]>> : p \in pairs }

\* _delete_user, lines 1392-1395.
drop_pairs(pairs, name) == {p \in pairs : p[1] # name /\ p[2] # name}

\* AssignUsersDialog._check_user_overlap (lines 2424-2432).
dialog_user_overlap(user_name, shift, all_shifts) ==
    \E k \in 1..Len(all_shifts) :
        /\ all_shifts[k].id # shift.id
        /\ user_name \in Range(all_shifts[k].assigned_users)
        /\ overlaps_with(shift, all_shifts[k])

\* AssignUsersDialog._save (lines 2500-2527): the checked names are taken, in
\* sorted order, unless two of them are in conflict or one of them works an
\* overlapping shift.
assign_accepted(pairs, shift, all_shifts, assigned) ==
    /\ \A i \in 1..Len(assigned) : \A j \in (i + 1)..Len(assigned) :
           <<assigned[i], assigned[j]>> \notin scheduler_init(pairs)
    /\ \A i \in 1..Len(assigned) :
           ~dialog_user_overlap(assigned[i], shift, all_shifts)

\* self.shifts as a list of Shift objects; Holds(list) makes it the list.
AppShifts == Deref(heap, shifts)

Holds(list) ==
    /\ heap' = list
    /\ shifts' = [k \in 1..Len(list) |-> k]

IsListed(name) ==
    \E k \in 1..Len(AppShifts) : name \in Range(AppShifts[k].assigned_users)

IsPaired(name) == \E p \in conflict_pairs : p[1] = name \/ p[2] = name

\* SchedulerApp.__init__ with nothing saved: DataManager loads no user, no
\* shift and no pair.
AppInit ==
    /\ users = <<>>
    /\ conflict_pairs = {}
    /\ conflicts = {}
    /\ heap = <<>>
    /\ shifts = <<>>
    /\ scheduled_shifts = <<>>
    /\ shifts_worked = <<>>
    /\ fixed_shifts = <<>>
    /\ flexible_shifts = <<>>
    /\ fi = 0
    /\ xi = 0
    /\ pc = "idle"
    /\ best_slots = <<>>
    /\ result = <<>>
    /\ shown_error = ""
    /\ calls = <<>>
    /\ shift_counter = 0
    /\ sample_steps = 0

\* _add_user (lines 1315-1332).
AddUser ==
    /\ pc = "idle"
    /\ WithinSession
    /\ Handled
    /\ SpareName \notin DOMAIN users
    /\ \E name \in NewNames \ DOMAIN users :
         users' = users @@ (name :> MkUser(name, DefaultMaxShifts, AllWeek))
    /\ calls' = <<>>
    /\ UNCHANGED <<conflict_pairs, conflicts, heap, shifts, scheduled_shifts,
                   shifts_worked, fixed_shifts, flexible_shifts, fi, xi, pc,
                   best_slots, result, shown_error, shift_counter>>

\* _edit_user (lines 1334-1379): the user is stored again under the name the
\* dialog returns; under a new name the pairs and the lists are rewritten.
EditUser ==
    /\ pc = "idle"
    /\ WithinSession
    /\ Handled
    /\ \E name \in DOMAIN users :
       \E new_name \in {name} \cup (TypedNames \ DOMAIN users) :
         LET renamed == new_name # name
             others == [n \in DOMAIN users \ {name} |-> users[n]]
         IN  /\ users' = (IF renamed THEN others ELSE users)
                             @@ (new_name :> [users[name] EXCEPT
                                                  !.name = new_name])
             /\ conflict_pairs' = IF renamed
                                  THEN rename_pairs(conflict_pairs, name, new_name)
                                  ELSE conflict_pairs
             /\ Holds(IF renamed
                      THEN [k \in 1..Len(AppShifts) |->
                               [AppShifts[k] EXCEPT !.assigned_users =
                                   rename_assigned(@, name, new_name)]]
                      ELSE AppShifts)
             /\ calls' = IF renamed
                         THEN << <<"_edit_user", name, new_name,
                                   IsListed(name), IsPaired(name)>> >>
                         ELSE <<>>
    /\ UNCHANGED <<conflicts, scheduled_shifts, shifts_worked, fixed_shifts,
                   flexible_shifts, fi, xi, pc, best_slots, result, shown_error,
                   shift_counter>>

\* _delete_user (lines 1381-1403), once the deletion is confirmed.
DeleteUser ==
    /\ pc = "idle"
    /\ WithinSession
    /\ Handled
    /\ \E name \in DOMAIN users :
         /\ users' = [n \in DOMAIN users \ {name} |-> users[n]]
         /\ conflict_pairs' = drop_pairs(conflict_pairs, name)
         /\ Holds([k \in 1..Len(AppShifts) |->
                      [AppShifts[k] EXCEPT !.assigned_users = remove_name(@, name)]])
         /\ calls' = << <<"_delete_user", name, IsListed(name), IsPaired(name)>> >>
    /\ UNCHANGED <<conflicts, scheduled_shifts, shifts_worked, fixed_shifts,
                   flexible_shifts, fi, xi, pc, best_slots, result, shown_error,
                   shift_counter>>

\* _manage_conflicts (lines 1405-1416) with ConflictDialog (lines 2704-2748):
\* a pair of two different users of the roster that is not listed in either
\* order is added, or a listed pair is removed, and the list is saved.
ManageConflicts ==
    /\ pc = "idle"
    /\ WithinSession
    /\ Handled
    /\ \/ \E user1 \in DOMAIN users, user2 \in DOMAIN users :
            /\ user1 # user2
            /\ <<user1, user2>> \notin conflict_pairs
            /\ <<user2, user1>> \notin conflict_pairs
            /\ conflict_pairs' = conflict_pairs \cup {<<user1, user2>>}
       \/ \E p \in conflict_pairs : conflict_pairs' = conflict_pairs \ {p}
    /\ calls' = <<>>
    /\ UNCHANGED <<users, conflicts, heap, shifts, scheduled_shifts,
                   shifts_worked, fixed_shifts, flexible_shifts, fi, xi, pc,
                   best_slots, result, shown_error, shift_counter>>

\* _add_shift (lines 1418-1438) with the entries ShiftDialog._save accepts.
AddShift ==
    /\ pc = "idle"
    /\ WithinSession
    /\ Handled
    /\ sample_steps > 0 \/ shift_counter < MaxShifts
    /\ \E kind \in ShiftType :
         /\ save_error("n", Mon0900to1700[2], Mon0900to1700[3],
                       Mon0900to1700[4], Mon0900to1700[5]) = ""
         /\ Holds(Append(AppShifts,
                     [MkShift(ShiftIds[shift_counter + 1], kind, Mon0900to1700,
                              DefaultRequired, <<>>) EXCEPT !.name = "n"]))
    /\ shift_counter' = shift_counter + 1
    /\ calls' = <<>>
    /\ UNCHANGED <<users, conflict_pairs, conflicts, scheduled_shifts,
                   shifts_worked, fixed_shifts, flexible_shifts, fi, xi, pc,
                   best_slots, result, shown_error>>

\* _edit_shift (lines 1440-1463): the entries of the dialog replace the
\* fields of the shift; its list stays.
EditShift ==
    /\ pc = "idle"
    /\ WithinSession
    /\ Handled
    /\ \E index \in 1..Len(AppShifts) : \E kind \in ShiftType :
       \E required \in {DefaultRequired, AppShifts[index].required_staff} :
         LET shift == AppShifts[index]
         IN  /\ save_error(shift.name, shift.start_hour, shift.start_minute,
                           shift.end_hour, shift.end_minute) = ""
             /\ Holds([AppShifts EXCEPT ![index] =
                          [shift EXCEPT !.shift_type = kind,
                                        !.required_staff = required]])
    /\ calls' = <<>>
    /\ UNCHANGED <<users, conflict_pairs, conflicts, scheduled_shifts,
                   shifts_worked, fixed_shifts, flexible_shifts, fi, xi, pc,
                   best_slots, result, shown_error, shift_counter>>

\* _delete_shift (lines 1465-1478), once the deletion is confirmed.
DeleteShift ==
    /\ pc = "idle"
    /\ WithinSession
    /\ Handled
    /\ \E index \in 1..Len(AppShifts) :
         Holds(SubSeq(AppShifts, 1, index - 1)
                   \o SubSeq(AppShifts, index + 1, Len(AppShifts)))
    /\ calls' = <<>>
    /\ UNCHANGED <<users, conflict_pairs, conflicts, scheduled_shifts,
                   shifts_worked, fixed_shifts, flexible_shifts, fi, xi, pc,
                   best_slots, result, shown_error, shift_counter>>

\* _manual_assign (lines 1480-1499) with AssignUsersDialog: the checked
\* users become the list of the shift.
ManualAssign ==
    /\ pc = "idle"
    /\ WithinSession
    /\ Handled
    /\ \E index \in 1..Len(AppShifts) : \E checked \in SUBSET DOMAIN users :
         LET assigned == sorted_names(checked)
         IN  /\ assign_accepted(conflict_pairs, AppShifts[index], AppShifts, assigned)
             /\ Holds([AppShifts EXCEPT ![index].assigned_users = assigned])
    /\ calls' = <<>>
    /\ UNCHANGED <<users, conflict_pairs, conflicts, scheduled_shifts,
                   shifts_worked, fixed_shifts, flexible_shifts, fi, xi, pc,
                   best_slots, result, shown_error, shift_counter>>

\* The sample data as Load Sample Data leaves them.
SampleAsLoaded ==
    /\ users = SampleUsers
    /\ AppShifts = SampleShifts
    /\ conflict_pairs = SampleConflicts

\* _auto_schedule, lines 1507-1514: with a user and a shift, a Scheduler is
\* made of the roster and the pairs and schedule_shifts(self.shifts) starts.
\* Of the sample data, the run is explored on the data as loaded.
AutoSchedule ==
    /\ pc = "idle"
    /\ WithinSession
    /\ Handled
    /\ sample_steps = 0 \/ SampleAsLoaded
    /\ DOMAIN users # {}
    /\ Len(shifts) > 0
    /\ conflicts' = scheduler_init(conflict_pairs)
    /\ pc' = "start"
    /\ calls' = <<>>
    /\ UNCHANGED <<users, conflict_pairs, heap, shifts, scheduled_shifts,
                   shifts_worked, fixed_shifts, flexible_shifts, fi, xi,
                   best_slots, result, shown_error, shift_counter>>

\* _auto_schedule, lines 1514-1516: the list schedule_shifts returned becomes
\* self.shifts; the Scheduler and the list it was given are dropped.
AdoptSchedule ==
    /\ pc = "done"
    /\ Holds(Deref(heap, result))
    /\ conflicts' = {}
    /\ scheduled_shifts' = <<>>
    /\ shifts_worked' = <<>>
    /\ fixed_shifts' = <<>>
    /\ flexible_shifts' = <<>>
    /\ fi' = 0
    /\ xi' = 0
    /\ pc' = "idle"
    /\ best_slots' = <<>>
    /\ result' = <<>>
    /\ calls' = <<>>
    /\ UNCHANGED <<users, conflict_pairs, shown_error, shift_counter,
                   sample_steps>>

\* _clear_assignments (lines 1531-1537), once confirmed.
ClearAssignments ==
    /\ pc = "idle"
    /\ WithinSession
    /\ Handled
    /\ Holds([k \in 1..Len(AppShifts) |->
                 [AppShifts[k] EXCEPT !.assigned_users = <<>>]])
    /\ calls' = <<>>
    /\ UNCHANGED <<users, conflict_pairs, conflicts, scheduled_shifts,
                   shifts_worked, fixed_shifts, flexible_shifts, fi, xi, pc,
                   best_slots, result, shown_error, shift_counter>>

\* _load_sample_data (lines 1576-1726), with the replacement of existing
\* data confirmed: the sample roster, shifts and pair take the place of the
\* data, and the shifts are counted from the sample's last number.
LoadSampleData ==
    /\ pc = "idle"
    /\ users' = SampleUsers
    /\ Holds(SampleShifts)
    /\ shift_counter' = Len(SampleShifts)     \* line 1719
    /\ conflict_pairs' = SampleConflicts
    /\ sample_steps' = 1
    /\ calls' = << <<"_load_sample_data">> >>
    /\ UNCHANGED <<conflicts, scheduled_shifts, shifts_worked, fixed_shifts,
                   flexible_shifts, fi, xi, pc, best_slots, result, shown_error>>

AppNext ==
    \/ LoadSampleData
    \/ AddUser \/ EditUser \/ DeleteUser \/ ManageConflicts
    \/ AddShift \/ EditShift \/ DeleteShift \/ ManualAssign \/ ClearAssignments
    \/ AutoSchedule \/ Start \/ ScheduleFixed \/ ScheduleFlexible \/ Return
    \/ AdoptSchedule

AppSpec == AppInit /\ [][AppNext]_vars

(***************************************************************************)
(* Properties of a finished run.                                           *)
(***************************************************************************)
Done == pc = "done"
Input == Deref(heap, shifts)
Output == Deref(heap, result)

StartOf(s) == s.start_hour * 60 + s.start_minute
EndOf(s) == s.end_hour * 60 + s.end_minute
WindowsOverlap(x, y) == StartOf(x) < EndOf(y) /\ StartOf(y) < EndOf(x)
Lists(list, k, s) == \E j \in 1..Len(list[k].assigned_users) :
                         list[k].assigned_users[j] = s
ListedIn(list, s) == {k \in 1..Len(list) : Lists(list, k, s)}
AllNames == DOMAIN users \cup {StaleName}
CapOf(s) == users[s].max_shifts_per_week
\* s has one availability window on the day of shift x that contains x's window
Covers(s, x) ==
    /\ x.day \in DOMAIN users[s].availability
    /\ \E j \in 1..Len(users[s].availability[x.day]) :
         LET w == users[s].availability[x.day][j]
         IN  /\ w.start_hour * 60 + w.start_minute <= StartOf(x)
             /\ w.end_hour * 60 + w.end_minute >= EndOf(x)
Registered(a, b) == <<a, b>> \in conflict_pairs \/ <<b, a>> \in conflict_pairs
Relocated(k) == /\ Input[k].shift_type = FLEXIBLE
                /\ best_slots[k] # NoSlot

\* C1: after schedule_shifts returns, no staff member is listed in two distinct
\* output shifts that are on the same day with overlapping windows.
NoDoubleBooking ==
    Done => \A x, y \in 1..Len(Output) : \A s \in AllNames :
        (x # y /\ Lists(Output, x, s) /\ Lists(Output, y, s))
            => \/ Output[x].day # Output[y].day
               \/ ~WindowsOverlap(Output[x], Output[y])

\* C1 witness: the input was double-booked, a flexible shift was relocated and
\* staffed, and somebody works two shifts of the output.
DoubleBookedInputScheduled ==
    /\ Done
    /\ \E x, y \in 1..Len(Input) : \E s \in DOMAIN users :
         /\ x # y /\ Lists(Input, x, s) /\ Lists(Input, y, s)
         /\ Input[x].day = Input[y].day /\ WindowsOverlap(Input[x], Input[y])
    /\ \E k \in 1..Len(Output) : Relocated(k) /\ Output[k].assigned_users # <<>>
    /\ \E s \in DOMAIN users : Cardinality(ListedIn(Output, s)) >= 2

\* C2: after schedule_shifts returns, no output shift lists two staff members
\* registered as a conflict pair in either order; with roster {A, B} in conflict
\* no shift has more than one assignee.
NoConflictCoAssignment ==
    Done => \A k \in 1..Len(Output) :
        /\ \A a, b \in AllNames :
             (Lists(Output, k, a) /\ Lists(Output, k, b)) => ~Registered(a, b)
        /\ (DOMAIN users = {"A", "B"} /\ Registered("A", "B"))
               => Len(Output[k].assigned_users) <= 1

\* C2 witness: a conflicting pair registered as (B, A) was listed together on a
\* shift that needs two, and the shift ends with one assignee.
ConflictingPairSplit ==
    /\ Done
    /\ conflict_pairs = {<<"B", "A">>}
    /\ \E k \in 1..Len(Output) :
         /\ Input[k].assigned_users = <<"A", "B">>
         /\ Input[k].required_staff = 2
         /\ Len(Output[k].assigned_users) = 1

\* C3: after schedule_shifts returns, every roster member is listed in at most
\* max_shifts_per_week output shifts.
CapRespected ==
    Done => \A s \in DOMAIN users : Cardinality(ListedIn(Output, s)) <= CapOf(s)

\* C3 witness: one member came in listed more often than the cap, and another
\* one was brought up to the cap by the run.
OverCapInputScheduled ==
    /\ Done
    /\ \E s \in DOMAIN users : Cardinality(ListedIn(Input, s)) > CapOf(s)
    /\ \E t \in DOMAIN users :
         /\ Cardinality(ListedIn(Input, t)) < CapOf(t)
         /\ Cardinality(ListedIn(Output, t)) = CapOf(t)

\* C4: after schedule_shifts returns, every assignee of every output shift is a
\* roster member with a single availability window, on the shift's output day,
\* that contains the shift's output window.
AvailabilityRespected ==
    Done => \A k \in 1..Len(Output) : \A s \in AllNames :
        Lists(Output, k, s) => (s \in DOMAIN users /\ Covers(s, Output[k]))

\* C4 witness: an assignee who was not available at the input placement of a
\* flexible shift, which was relocated and is staffed in the output.
UnavailableAssigneeRelocated ==
    /\ Done
    /\ \E k \in 1..Len(Output) : \E s \in DOMAIN users :
         /\ Lists(Input, k, s) /\ ~Covers(s, Input[k])
         /\ Relocated(k)
         /\ Output[k].assigned_users # <<>>

\* The pre-existing assignment of s to input shift k is legal: roster member,
\* available for the shift, no overlapping shift, no conflicting co-assignee,
\* number of input assignments within the cap.
LegalInInput(k, s) ==
    /\ s \in DOMAIN users
    /\ Covers(s, Input[k])
    /\ \A y \in 1..Len(Input) :
         (y # k /\ Lists(Input, y, s))
             => (Input[y].day # Input[k].day \/ ~WindowsOverlap(Input[k], Input[y]))
    /\ \A t \in AllNames : Lists(Input, k, t) => ~Registered(s, t)
    /\ Cardinality(ListedIn(Input, s)) <= CapOf(s)

FullyAndValidlyStaffed ==
    \A k \in 1..Len(Input) :
        /\ Len(Input[k].assigned_users) = Input[k].required_staff
        /\ \A s \in AllNames : Lists(Input, k, s) => LegalInInput(k, s)

\* C5: if every input shift is fully staffed and every assignment is valid
\* (caps counted as "at most"), schedule_shifts returns every shift with exactly
\* its existing assignees.
IdempotentOnValidInput ==
    (Done /\ FullyAndValidlyStaffed)
        => \A k \in 1..Len(Output) :
               Output[k].assigned_users = Input[k].assigned_users

\* C6: every pre-existing assignment that is still legal is present in the
\* output of schedule_shifts.
LegalAssignmentsPreserved ==
    Done => \A k \in 1..Len(Output) : \A s \in AllNames :
        (Lists(Input, k, s) /\ LegalInInput(k, s)) => Lists(Output, k, s)

\* C7 (as claimed): after schedule_shifts returns, every output shift has at most
\* required_staff assignees, also when its input list was longer.
HeadcountBound ==
    Done => \A k \in 1..Len(Output) :
        Len(Output[k].assigned_users) <= Output[k].required_staff

\* C7 (amended): every output shift has at most max(required_staff, length of
\* its input list) assignees, and a shift that ends above required_staff lists
\* only assignees it already had: the engine adds nobody beyond required_staff
\* and does not cut a longer list of valid assignees.
HeadcountBoundOrKept ==
    Done => \A k \in 1..Len(Output) :
        \/ Len(Output[k].assigned_users) <= Output[k].required_staff
        \/ /\ Len(Output[k].assigned_users) <= Len(Input[k].assigned_users)
           /\ \A s \in AllNames : Lists(Output, k, s) => Lists(Input, k, s)

\* C7 witness: one shift came in with more valid assignees than required and
\* keeps them, and another shift was filled up to exactly required_staff.
LongListKeptAndShiftFilled ==
    /\ Done
    /\ \E k \in 1..Len(Output) :
         /\ Len(Input[k].assigned_users) > Input[k].required_staff
         /\ Len(Output[k].assigned_users) > Output[k].required_staff
    /\ \E k \in 1..Len(Output) :
         /\ Len(Input[k].assigned_users) < Input[k].required_staff
         /\ Len(Output[k].assigned_users) = Output[k].required_staff

(***************************************************************************)
(* Properties of the slot search, stated where _find_best_slot is called.  *)
(***************************************************************************)
FlexiblePending ==
    pc = "running" /\ fi = Len(fixed_shifts) /\ xi < Len(flexible_shifts)
Working == Deref(heap, scheduled_shifts)
PendingShift == Working[flexible_shifts[xi + 1]]

\* The pending shift placed at day d, start minute m (its duration kept).
PlacedAt(d, m) ==
    [PendingShift EXCEPT !.day = d,
        !.start_hour = m \div 60, !.start_minute = m % 60,
        !.end_hour = (m + duration_minutes(PendingShift)) \div 60,
        !.end_minute = (m + duration_minutes(PendingShift)) % 60]

SlotAsShift(slot) ==
    [PendingShift EXCEPT !.day = slot[1],
        !.start_hour = slot[2], !.start_minute = slot[3],
        !.end_hour = slot[4], !.end_minute = slot[5]]

CollisionFree(x) ==
    \A k \in 1..Len(Working) :
        Working[k].id # x.id
            => (Working[k].day # x.day \/ ~WindowsOverlap(x, Working[k]))

EligibleAt(x) ==
    {s \in DOMAIN users :
        /\ shifts_worked[s] < CapOf(s)
        /\ Covers(s, x)
        /\ \A k \in 1..Len(Working) :
             (Working[k].id # x.id /\ Lists(Working, k, s))
                 => (Working[k].day # x.day \/ ~WindowsOverlap(x, Working[k]))}

\* x collides with no other shift and has required_staff eligible staff that
\* are mutually non-conflicting.
Staffable(x) ==
    /\ EndOf(x) <= 24 * 60
    /\ CollisionFree(x)
    /\ \E team \in SUBSET EligibleAt(x) :
         /\ Cardinality(team) >= x.required_staff
         /\ \A a, b \in team : ~Registered(a, b)

\* C8: if some day and half-hour start gives the flexible shift a collision-free
\* window with required_staff eligible, mutually non-conflicting staff, then
\* _find_best_slot returns a placement that is itself collision-free with
\* required_staff eligible, mutually non-conflicting staff.
PlacementFeasible ==
    FlexiblePending =>
        ((\E d \in 0..6 : \E h \in 0..47 : Staffable(PlacedAt(d, 30 * h)))
            => LET slot == find_best_slot(users, PendingShift, shifts_worked, Working)
               IN  slot # NoSlot /\ Staffable(SlotAsShift(slot)))

(***************************************************************************)
(* Frame properties.                                                       *)
(***************************************************************************)
\* C9: no step of schedule_shifts changes a Shift object of the caller's list,
\* nor the list itself.
InputNeverMutated ==
    [][/\ shifts' = shifts
       /\ \A k \in 1..Len(shifts) : heap'[shifts[k]] = heap[shifts[k]]]_vars

\* C9 witness: the run returned copies that differ from the caller's shifts in
\* placement and in assignees, none of them an object of the caller's list.
CopiesChanged ==
    /\ Done
    /\ \A k \in 1..Len(result) : \A j \in 1..Len(shifts) : result[k] # shifts[j]
    /\ \E k \in 1..Len(Output) : Output[k].day # Input[k].day
    /\ \E k \in 1..Len(Output) : Output[k].assigned_users # Input[k].assigned_users

\* C10: the returned list has the length of the input and, position by
\* position, the same id, name, shift_type and required_staff; a fixed shift
\* also keeps its day and times.
OneToOneById ==
    Done =>
        /\ Len(Output) = Len(Input)
        /\ \A k \in 1..Len(Output) :
             /\ Output[k].id = Input[k].id
             /\ Output[k].name = Input[k].name
             /\ Output[k].shift_type = Input[k].shift_type
             /\ Output[k].required_staff = Input[k].required_staff
             /\ Input[k].shift_type = FIXED
                    => /\ Output[k].day = Input[k].day
                       /\ StartOf(Output[k]) = StartOf(Input[k])
                       /\ EndOf(Output[k]) = EndOf(Input[k])

\* C10 witness: a flexible shift listed before a fixed one was relocated and
\* re-staffed, and is returned at its input position.
RelocatedInPlace ==
    /\ Done
    /\ \E k \in 1..Len(Output) : \E j \in 1..Len(Output) :
         /\ k < j
         /\ Input[k].shift_type = FLEXIBLE /\ Input[j].shift_type = FIXED
         /\ Relocated(k)
         /\ <<Output[k].day, StartOf(Output[k])>> # <<Input[k].day, StartOf(Input[k])>>
         /\ Output[k].assigned_users # Input[k].assigned_users

(***************************************************************************)
(* Properties of the run as it proceeds.                                   *)
(***************************************************************************)
Placement(s) == <<s.day, s.start_hour, s.start_minute, s.end_hour, s.end_minute>>

\* C11: a FIXED shift never moves: from the copy onwards and in the output its
\* day, start_hour, start_minute, end_hour and end_minute are those of the
\* input; only FLEXIBLE shifts have their day or window rewritten.
FixedNeverMove ==
    /\ pc # "start" =>
         \A k \in 1..Len(Working) :
             Placement(Working[k]) # Placement(Input[k])
                 => Input[k].shift_type = FLEXIBLE
    /\ Done =>
         \A k \in 1..Len(Output) :
             Input[k].shift_type = FIXED
                 => /\ Output[k].day = Input[k].day
                    /\ Output[k].start_hour = Input[k].start_hour
                    /\ Output[k].start_minute = Input[k].start_minute
                    /\ Output[k].end_hour = Input[k].end_hour
                    /\ Output[k].end_minute = Input[k].end_minute

\* C11 witness: in one finished run a fixed shift was re-staffed where it stood
\* and a flexible shift was moved to another placement.
FixedRestaffedFlexibleMoved ==
    /\ Done
    /\ \E k \in 1..Len(Output) :
         /\ Input[k].shift_type = FIXED
         /\ Output[k].assigned_users # Input[k].assigned_users
    /\ \E j \in 1..Len(Output) :
         /\ Input[j].shift_type = FLEXIBLE
         /\ Placement(Output[j]) # Placement(Input[j])

Understaffed(x) == Len(x.assigned_users) < x.required_staff

\* C12: a run on any input, also with an empty roster, an empty shift list,
\* staff at their cap or constraints that cannot be met, raises nothing, ends,
\* and returns the list of the input's shifts; what could not be done shows as
\* an understaffed shift or as a flexible shift left where it was (no slot
\* found among the at most 7 x 48 candidates tried).
NoSolutionIsNoError ==
    /\ [](pc # "raised")
    /\ <>Done
    /\ [](Done =>
            /\ Len(Output) = Len(Input)
            /\ \A k \in 1..Len(Output) :
                 /\ Output[k].id = Input[k].id
                 /\ (Input[k].shift_type = FLEXIBLE /\ best_slots[k] = NoSlot)
                        => Placement(Output[k]) = Placement(Input[k])
                 /\ Placement(Output[k]) # Placement(Input[k])
                        => /\ best_slots[k] # NoSlot
                           /\ Placement(Output[k]) = best_slots[k])
    /\ [](Cardinality(slot_trials) <= 7 * 48)

\* C12 witness: a finished run on an empty roster that left a fixed shift
\* understaffed and a flexible shift unplaced and understaffed.
EmptyRosterRunFinished ==
    /\ Done
    /\ DOMAIN users = {}
    /\ \E k \in 1..Len(Output) :
         Input[k].shift_type = FIXED /\ Understaffed(Output[k])
    /\ \E k \in 1..Len(Output) :
         /\ Input[k].shift_type = FLEXIBLE /\ best_slots[k] = NoSlot
         /\ Understaffed(Output[k])

\* C12 witness, continued: the other boundary cases end as well.
EmptyListRunFinished == Done /\ Len(Input) = 0 /\ Len(Output) = 0

\* The ids a list of shifts names, and those of them outside the roster.
NamesListed(list) == UNION {Range(list[k].assigned_users) : k \in 1..Len(list)}
StaleListed(list) == NamesListed(list) \ DOMAIN users
NamesPaired == {p[1] : p \in conflict_pairs} \cup {p[2] : p \in conflict_pairs}

\* C13: an id outside the roster, listed on a shift or named in a conflict
\* pair, raises nothing; the worked-shift counter has entries for the roster
\* members only; and every id listed in the output is a roster member.
StaleIdsTolerated ==
    /\ pc # "raised"
    /\ pc # "start" => DOMAIN shifts_worked = DOMAIN users
    /\ Done => /\ StaleListed(Output) = {}
               /\ \A k \in 1..Len(Output) :
                    \A j \in 1..Len(Output[k].assigned_users) :
                        /\ Output[k].assigned_users[j] \in DOMAIN users
                        /\ Output[k].assigned_users[j] \notin StaleListed(Input)

\* C13 witness: a finished run whose input listed an id outside the roster that
\* is also named in a conflict pair with a roster member, and that member took
\* the place on the shift.
StaleIdReplaced ==
    /\ Done
    /\ \E k \in 1..Len(Output) : \E z \in StaleListed(Input) : \E s \in DOMAIN users :
         /\ Lists(Input, k, z)
         /\ z \in NamesPaired /\ Registered(z, s)
         /\ Lists(Output, k, s) /\ ~Lists(Input, k, s)

(***************************************************************************)
(* Properties of the construction.                                         *)
(***************************************************************************)
\* C14: data that violates the caller's contract is rejected when it is
\* constructed, so no constructed value shows a violation: a Scheduler has no
\* conflict pair naming an id outside its roster, every Shift has
\* required_staff >= 1 and ends after it starts, and so does every TimeRange.
ContractViolationsRejected ==
    /\ pc = "built" =>
         \A p \in conflict_pairs : p[1] \in DOMAIN users /\ p[2] \in DOMAIN users
    /\ \A r \in DOMAIN heap :
         /\ heap[r].required_staff >= 1
         /\ EndOf(heap[r]) > StartOf(heap[r])
    /\ \A s \in DOMAIN users : \A d \in DOMAIN users[s].availability :
         \A j \in 1..Len(users[s].availability[d]) :
             to_minutes(users[s].availability[d][j])[2]
                 > to_minutes(users[s].availability[d][j])[1]

(***************************************************************************)
(* Relocation of a flexible shift.                                         *)
(***************************************************************************)
\* The half-hour-grid slots <<day, half-hour index>> at which the pending shift
\* collides with no other shift and has required_staff eligible staff.
GoodSlots ==
    {g \in (0..6) \X (0..47) :
        LET x == PlacedAt(g[1], 30 * g[2])
        IN  /\ EndOf(x) <= 24 * 60
            /\ CollisionFree(x)
            /\ Cardinality(EligibleAt(x)) >= PendingShift.required_staff}

TheGoodSlot == PlacedAt((CHOOSE g \in GoodSlots : TRUE)[1],
                        30 * (CHOOSE g \in GoodSlots : TRUE)[2])

\* The pending shift as the step leaves it.
PendingAfter == heap'[scheduled_shifts[flexible_shifts[xi + 1]]]

\* The roster is C alone, below the cap and available on Tuesday 14:00-16:00
\* only, and the input is one flexible shift of 120 minutes that requires 1.
ScenarioInput ==
    /\ DOMAIN users = {"C"}
    /\ users["C"].availability = TueAfternoon
    /\ Cardinality(ListedIn(Input, "C")) < CapOf("C")
    /\ Len(Input) = 1
    /\ Input[1].shift_type = FLEXIBLE
    /\ duration_minutes(Input[1]) = 120
    /\ Input[1].required_staff = 1

ScenarioOutput ==
    /\ Placement(Output[1]) = Tue1400to1600
    /\ Output[1].assigned_users = <<"C">>

\* C15 (as claimed): in the scenario the shift is returned on Tuesday
\* 14:00-16:00 with C assigned; and whenever exactly one collision-free grid
\* slot has required_staff eligible staff, the step moves the flexible shift to
\* that slot and staffs it there with required_staff assignees.
RelocatedAndStaffed ==
    /\ []((Done /\ ScenarioInput) => ScenarioOutput)
    /\ [][(FlexiblePending /\ Cardinality(GoodSlots) = 1)
            => /\ Placement(PendingAfter) = Placement(TheGoodSlot)
               /\ Len(PendingAfter.assigned_users) >= PendingShift.required_staff
         ]_vars

\* C15 (amended): as above, but the shift ends with required_staff assignees
\* at the slot provided no two of the staff eligible there are a conflict
\* pair; in every case it ends there with at least one assignee, and all its
\* assignees are among the staff eligible there.
RelocatedAndStaffedUnlessConflict ==
    /\ []((Done /\ ScenarioInput) => ScenarioOutput)
    /\ [][(FlexiblePending /\ Cardinality(GoodSlots) = 1)
            => /\ Placement(PendingAfter) = Placement(TheGoodSlot)
               /\ (\A a, b \in EligibleAt(TheGoodSlot) : ~Registered(a, b))
                      => Len(PendingAfter.assigned_users)
                             >= PendingShift.required_staff
               /\ Len(PendingAfter.assigned_users) >= 1
               /\ Range(PendingAfter.assigned_users) \subseteq EligibleAt(TheGoodSlot)
         ]_vars

\* C15 witness: the scenario, with the shift brought from another day to
\* Tuesday 14:00-16:00 and C assigned.
ScenarioRelocated ==
    /\ Done
    /\ ScenarioInput
    /\ Input[1].day # 1 /\ Input[1].assigned_users = <<>>
    /\ ScenarioOutput

\* C15 witness, continued: the only slot for two was taken by a shift that
\* requires two, and the two staff eligible there are in conflict.
OnlySlotTakenByOne ==
    /\ Done
    /\ Registered("A", "B")
    /\ Len(Input) = 1 /\ Input[1].required_staff = 2
    /\ Placement(Input[1]) = Mon0900to1100
    /\ Placement(Output[1]) = Tue1400to1600
    /\ Len(Output[1].assigned_users) = 1

(***************************************************************************)
(* The order of the calls.                                                 *)
(***************************************************************************)
\* The positions of the input's shifts of a kind, lowest first.
RECURSIVE Ascending(_)
Ascending(S) ==
    IF S = {} THEN <<>>
    ELSE LET low == CHOOSE a \in S : \A b \in S : a <= b
         IN  <<low>> \o Ascending(S \ {low})

PositionsOfKind(kind) ==
    Ascending({k \in 1..Len(Input) : Input[k].shift_type = kind})

RECURSIVE FindThenAssign(_)
FindThenAssign(positions) ==
    IF positions = <<>> THEN <<>>
    ELSE << <<"_find_best_slot", Head(positions)>>,
            <<"_assign_shift_balanced", Head(positions)>> >>
             \o FindThenAssign(Tail(positions))

ExpectedCalls ==
    [j \in 1..Len(PositionsOfKind(FIXED)) |->
        <<"_assign_shift_balanced", PositionsOfKind(FIXED)[j]>>]
        \o FindThenAssign(PositionsOfKind(FLEXIBLE))

IsPrefix(a, b) == Len(a) <= Len(b) /\ \A j \in 1..Len(a) : a[j] = b[j]

CallsOn(method, k) == {j \in 1..Len(calls) : calls[j] = <<method, k>>}

\* C16: every FIXED shift goes through _assign_shift_balanced before
\* _find_best_slot or _assign_shift_balanced is applied to any FLEXIBLE shift;
\* within each kind the shifts are taken in input-list order; and when the run
\* returns every shift has been processed exactly once.
ProcessingOrder ==
    /\ IsPrefix(calls, ExpectedCalls)
    /\ \A i, j \in 1..Len(calls) :
         (Input[calls[i][2]].shift_type = FLEXIBLE
              /\ Input[calls[j][2]].shift_type = FIXED) => j < i
    /\ \A i, j \in 1..Len(calls) :
         (i < j /\ Input[calls[i][2]].shift_type = Input[calls[j][2]].shift_type)
             => calls[i][2] <= calls[j][2]
    /\ Done =>
         /\ calls = ExpectedCalls
         /\ \A k \in 1..Len(Input) :
              /\ Cardinality(CallsOn("_assign_shift_balanced", k)) = 1
              /\ Cardinality(CallsOn("_find_best_slot", k))
                     = IF Input[k].shift_type = FLEXIBLE THEN 1 ELSE 0

\* C16 witness: a finished run on a list that has a flexible shift before a
\* fixed one and another flexible shift after it; the fixed shift was taken
\* first, then the two flexible ones in list order.
FixedThenFlexibleInOrder ==
    /\ Done
    /\ Len(Input) = 3
    /\ Input[1].shift_type = FLEXIBLE /\ Input[2].shift_type = FIXED
    /\ Input[3].shift_type = FLEXIBLE
    /\ calls = << <<"_assign_shift_balanced", 2>>,
                  <<"_find_best_slot", 1>>, <<"_assign_shift_balanced", 1>>,
                  <<"_find_best_slot", 3>>, <<"_assign_shift_balanced", 3>> >>

(***************************************************************************)
(* Properties of one call of _assign_shift_balanced, stated on the step    *)
(* that makes it.                                                          *)
(***************************************************************************)
ShiftPending ==
    pc = "running" /\ (fi < Len(fixed_shifts) \/ xi < Len(flexible_shifts))
StepPosition ==
    IF fi < Len(fixed_shifts) THEN fixed_shifts[fi + 1] ELSE flexible_shifts[xi + 1]
ShiftBefore == Working[StepPosition]
ShiftAfter == heap'[scheduled_shifts[StepPosition]]

\* The shift as _assign_shift_balanced finds it: at the placement the step
\* gives it, with the list it came with.
ShiftAssigned ==
    [ShiftBefore EXCEPT !.day = ShiftAfter.day,
        !.start_hour = ShiftAfter.start_hour,
        !.start_minute = ShiftAfter.start_minute,
        !.end_hour = ShiftAfter.end_hour, !.end_minute = ShiftAfter.end_minute]

\* The existing assignees that are retained: in the roster, under the cap,
\* available, without an overlapping assignment elsewhere, and in conflict
\* with nobody retained before them.
RECURSIVE RetainedOf(_, _)
RetainedOf(rest, kept) ==
    IF rest = <<>> THEN kept
    ELSE RetainedOf(Tail(rest),
            IF /\ Head(rest) \in EligibleAt(ShiftAssigned)
               /\ \A j \in 1..Len(kept) : ~Registered(kept[j], Head(rest))
            THEN Append(kept, Head(rest))
            ELSE kept)

\* C17: a call of _assign_shift_balanced retains exactly the existing
\* assignees that are in the roster, under the cap, available for the shift's
\* current day and window, without an overlapping assignment in another shift
\* and in conflict with nobody retained earlier in the list; they keep their
\* relative order (the list starts with them, and whoever follows was not on
\* it); of two conflicting assignees that pass the other checks the first
\* listed stays and the later one goes.
ExistingAssigneesValidated ==
    [][ShiftPending =>
          LET before == ShiftBefore.assigned_users
              after == ShiftAfter.assigned_users
              retained == RetainedOf(before, <<>>)
          IN  /\ IsPrefix(retained, after)
              /\ \A j \in (Len(retained) + 1)..Len(after) :
                     after[j] \notin Range(before)
              /\ \A i, j \in 1..Len(before) :
                     (/\ i < j
                      /\ before[i] \in EligibleAt(ShiftAssigned)
                      /\ before[j] \in EligibleAt(ShiftAssigned)
                      /\ Registered(before[i], before[j])
                      /\ \A h \in 1..(i - 1) : ~Registered(before[h], before[i]))
                         => /\ before[i] \in Range(after)
                            /\ before[j] \notin Range(after)
      ]_vars

\* C17 witness: a shift came with B and A listed in this order, the two are in
\* conflict and each would be legal alone; the run returns it with B alone.
FirstListedKept ==
    /\ Done
    /\ Registered("A", "B")
    /\ \E k \in 1..Len(Output) :
         /\ Input[k].assigned_users = <<"B", "A">>
         /\ Input[k].required_staff = 2
         /\ \A s \in {"A", "B"} :
              Covers(s, Input[k]) /\ Cardinality(ListedIn(Input, s)) < CapOf(s)
         /\ Output[k].assigned_users = <<"B">>

\* C18: when a call of _assign_shift_balanced leaves the shift with fewer than
\* required_staff assignees, every roster member who was eligible for it and
\* is not assigned to it is in conflict with one of its assignees; so with no
\* conflict pairs at all and at least required_staff eligible staff, a shift
\* that came with an empty list ends with exactly required_staff assignees.
GreedyFillMaximal ==
    [][ShiftPending =>
          LET after == ShiftAfter.assigned_users
              eligible == EligibleAt(ShiftAssigned)
          IN  /\ Len(after) < ShiftBefore.required_staff
                   => \A u \in eligible \ Range(after) :
                          \E j \in 1..Len(after) : Registered(after[j], u)
              /\ (/\ conflict_pairs = {}
                  /\ Cardinality(eligible) >= ShiftBefore.required_staff
                  /\ ShiftBefore.assigned_users = <<>>)
                   => Len(after) = ShiftBefore.required_staff
      ]_vars

\* C18 witness: a shift that requires two came with an empty list, A and B
\* could both work it but are in conflict, and it is returned with one of them.
UnderstaffedByConflict ==
    /\ Done
    /\ DOMAIN users = {"A", "B"} /\ Registered("A", "B")
    /\ \E k \in 1..Len(Output) :
         /\ Input[k].assigned_users = <<>>
         /\ Input[k].required_staff = 2
         /\ Len(Output[k].assigned_users) = 1
         /\ \A s \in {"A", "B"} :
              /\ Covers(s, Output[k])
              /\ Lists(Output, k, s) \/ Cardinality(ListedIn(Output, s)) < CapOf(s)
              /\ \A y \in 1..Len(Output) :
                   (y # k /\ Lists(Output, y, s))
                       => (Output[y].day # Output[k].day
                           \/ ~WindowsOverlap(Output[k], Output[y]))

\* C18 witness, continued: roster {A, B}, no conflicts, a shift that requires
\* two came with an empty list and is returned with both.
BothAssigned ==
    /\ Done
    /\ DOMAIN users = {"A", "B"} /\ conflict_pairs = {}
    /\ \E k \in 1..Len(Output) :
         /\ Input[k].assigned_users = <<>>
         /\ Input[k].required_staff = 2
         /\ Range(Output[k].assigned_users) = {"A", "B"}

(***************************************************************************)
(* The slot search, compared with its description.                         *)
(***************************************************************************)
\* The candidate slots <<day, half-hour index>> of the pending shift: on the
\* grid, ending by 24:00, colliding with no other shift.
CandidateSlots ==
    {g \in (0..6) \X (0..47) :
        /\ EndOf(PlacedAt(g[1], 30 * g[2])) <= 24 * 60
        /\ CollisionFree(PlacedAt(g[1], 30 * g[2]))}

\* The score: the roster members under their cap whose availability covers
\* the window.
ScoreOf(g) ==
    Cardinality({s \in DOMAIN users :
        shifts_worked[s] < CapOf(s) /\ Covers(s, PlacedAt(g[1], 30 * g[2]))})

\* What the description selects: the candidates with the highest score, and
\* of them the first in day-major, time-minor order (none without candidates).
SlotRule ==
    LET scored == {<<g, ScoreOf(g)>> : g \in CandidateSlots}
        scores == {p[2] : p \in scored}
        max == IF scores = {} THEN -1
               ELSE CHOOSE m \in scores : \A n \in scores : n <= m
        top == {p[1] : p \in {q \in scored : q[2] = max}}
        days == {g[1] : g \in top}
        day == CHOOSE d \in days : \A e \in days : d <= e
        starts == {g[2] : g \in {h \in top : h[1] = day}}
        start == CHOOSE a \in starts : \A b \in starts : a <= b
    IN  [candidates |-> {p[1] : p \in scored},
         max |-> max,
         top |-> top,
         first |-> IF top = {} THEN NoSlot
                   ELSE Placement(PlacedAt(day, 30 * start))]

SlotFound == find_best_slot(users, PendingShift, shifts_worked, Working)

\* C19: _find_best_slot returns, among the collision-free candidate slots, the
\* first in day-major, time-minor order of those with the highest score,
\* provided that score is at least required_staff; otherwise (also when there
\* is no candidate) it returns None.
BestSlotRule ==
    FlexiblePending =>
        LET rule == SlotRule
        IN  IF rule.top # {} /\ rule.max >= PendingShift.required_staff
            THEN SlotFound # NoSlot /\ SlotFound = rule.first
            ELSE SlotFound = NoSlot

\* C19 witness: several candidate slots share the highest score, which is
\* enough for the shift, other candidates score less, and the slot returned
\* is the first of the best and not where the shift stands.
TieResolvedByScanOrder ==
    /\ FlexiblePending
    /\ LET rule == SlotRule
       IN  /\ Cardinality(rule.top) >= 2
           /\ rule.max >= PendingShift.required_staff
           /\ rule.candidates \ rule.top # {}
           /\ SlotFound = rule.first
    /\ SlotFound # Placement(PendingShift)

\* C19 witness, continued: there are candidate slots but none has enough
\* staff, and nothing is returned.
NoSlotForLackOfStaff ==
    /\ FlexiblePending
    /\ LET rule == SlotRule
       IN  /\ rule.candidates # {}
           /\ rule.max < PendingShift.required_staff
    /\ SlotFound = NoSlot

\* C20: a slot returned by _find_best_slot is a legal placement: day 0..6,
\* start on a half-hour boundary, as long as the shift is now, ending by 24:00,
\* and overlapping no other shift (of any kind, with any other id) of the
\* working list on its day.
ReturnedSlotLegal ==
    (FlexiblePending /\ SlotFound # NoSlot) =>
        LET slot == SlotFound
        IN  /\ slot[1] \in 0..6
            /\ slot[2] \in 0..23 /\ slot[3] \in {0, 30}
            /\ slot[5] \in 0..59
            /\ (slot[4] * 60 + slot[5]) - (slot[2] * 60 + slot[3])
                   = duration_minutes(PendingShift)
            /\ slot[4] * 60 + slot[5] <= 24 * 60
            /\ \A k \in 1..Len(Working) :
                   Working[k].id # PendingShift.id
                       => \/ Working[k].day # slot[1]
                          \/ ~(slot[2] * 60 + slot[3] < EndOf(Working[k])
                               /\ StartOf(Working[k]) < slot[4] * 60 + slot[5])

\* C20 witness: a slot is returned although an earlier grid slot has as many
\* available staff: that one collides with another shift.
CollidingSlotPassedOver ==
    /\ FlexiblePending
    /\ LET found == SlotFound
           max == SlotRule.max
       IN  /\ found # NoSlot
           /\ \E g \in (0..6) \X (0..47) :
                /\ EndOf(PlacedAt(g[1], 30 * g[2])) <= 24 * 60
                /\ ~CollisionFree(PlacedAt(g[1], 30 * g[2]))
                /\ ScoreOf(g) >= max
                /\ \/ g[1] < found[1]
                   \/ g[1] = found[1] /\ 30 * g[2] < found[2] * 60 + found[3]

(***************************************************************************)
(* A flexible shift for which no slot is found.                            *)
(***************************************************************************)
\* The existing assignees of x that a call retains with x placed as it is.
RECURSIVE RetainedAt(_, _, _)
RetainedAt(x, rest, kept) ==
    IF rest = <<>> THEN kept
    ELSE RetainedAt(x, Tail(rest),
            IF /\ Head(rest) \in EligibleAt(x)
               /\ \A j \in 1..Len(kept) : ~Registered(kept[j], Head(rest))
            THEN Append(kept, Head(rest))
            ELSE kept)

\* C21: when _find_best_slot returns None for a flexible shift, the shift
\* keeps the day and times of the input, and _assign_shift_balanced is still
\* run on it at that placement: its existing assignees are validated there and
\* it is filled with staff eligible there.
UnplacedShiftStaffedInPlace ==
    /\ [](Done => \A k \in 1..Len(Output) :
                     (Input[k].shift_type = FLEXIBLE /\ best_slots[k] = NoSlot)
                         => Placement(Output[k]) = Placement(Input[k]))
    /\ [][(FlexiblePending /\ SlotFound = NoSlot)
            => LET k == flexible_shifts[xi + 1]
                   before == PendingShift.assigned_users
                   after == PendingAfter.assigned_users
                   retained == RetainedAt(PendingShift, before, <<>>)
               IN  /\ Placement(PendingAfter) = Placement(PendingShift)
                   /\ Placement(PendingShift) = Placement(Input[k])
                   /\ calls' = calls \o << <<"_find_best_slot", k>>,
                                           <<"_assign_shift_balanced", k>> >>
                   /\ IsPrefix(retained, after)
                   /\ Range(after) \subseteq EligibleAt(PendingShift)
                   /\ Len(after) <= IF Len(retained) > PendingShift.required_staff
                                    THEN Len(retained)
                                    ELSE PendingShift.required_staff
                   /\ Len(after) < PendingShift.required_staff
                        => \A u \in EligibleAt(PendingShift) \ Range(after) :
                               \E j \in 1..Len(after) : Registered(after[j], u)
         ]_vars

\* C21 witness: no slot was found for a flexible shift that came unstaffed, and
\* it is returned where it stood with an assignee.
UnplacedShiftFilled ==
    /\ Done
    /\ \E k \in 1..Len(Output) :
         /\ Input[k].shift_type = FLEXIBLE /\ best_slots[k] = NoSlot
         /\ Input[k].assigned_users = <<>>
         /\ Placement(Output[k]) = Placement(Input[k])
         /\ Output[k].assigned_users # <<>>

\* C21 witness, continued: no slot was found and the listed assignee, who is
\* at the cap, was dropped where the shift stood.
UnplacedShiftValidated ==
    /\ Done
    /\ \E k \in 1..Len(Output) :
         /\ Input[k].shift_type = FLEXIBLE /\ best_slots[k] = NoSlot
         /\ Input[k].assigned_users # <<>>
         /\ Placement(Output[k]) = Placement(Input[k])
         /\ Output[k].assigned_users = <<>>

(***************************************************************************)
(* The order in which the candidates are considered.                       *)
(***************************************************************************)
HeadroomOf(s) == CapOf(s) - shifts_worked[s]

\* C22: in the greedy pass of _assign_shift_balanced the candidate with
\* strictly fewer worked shifts is considered before the other whatever the
\* caps, and of candidates with equal worked counts the one with more headroom
\* (cap - worked) comes first.  Stated on a step without conflicts, where the
\* pass accepts the candidates in the order it considers them: nobody it
\* accepts has worked more than a candidate it accepts later or leaves out,
\* or has worked as much with less headroom.
FewerShiftsFirst ==
    [][(ShiftPending /\ conflict_pairs = {})
          => LET before == ShiftBefore.assigned_users
                 after == ShiftAfter.assigned_users
                 candidates == EligibleAt(ShiftAssigned) \ Range(before)
             IN  \A j \in 1..Len(after) : \A u \in candidates :
                     (/\ after[j] \in candidates
                      /\ \A h \in 1..j : after[h] # u)
                         => /\ shifts_worked[after[j]] <= shifts_worked[u]
                            /\ shifts_worked[after[j]] = shifts_worked[u]
                                   => HeadroomOf(after[j]) >= HeadroomOf(u)
      ]_vars

(***************************************************************************)
(* The worked-shift counter.                                               *)
(***************************************************************************)
ListedCount(list, s) == Cardinality(ListedIn(list, s))

\* C23: the counter starts at the number of input shifts that list each roster
\* member; a call of _assign_shift_balanced adds exactly one for each candidate
\* it newly accepts and changes nothing else (nothing is subtracted, also not
\* for an existing assignee it drops); so from the copy onwards the counter of
\* every roster member is at least the number of shifts of the working list
\* that list the member.
WorkedCountInvariant ==
    /\ [][pc = "start"
            => \A s \in DOMAIN users : shifts_worked'[s] = ListedCount(Input, s)]_vars
    /\ [][ShiftPending
            => \A s \in DOMAIN users :
                   /\ shifts_worked'[s] >= shifts_worked[s]
                   /\ shifts_worked'[s] - shifts_worked[s]
                          = IF /\ Lists(<<ShiftAfter>>, 1, s)
                               /\ ~Lists(<<ShiftBefore>>, 1, s)
                            THEN 1 ELSE 0]_vars
    /\ [](pc # "start"
            => /\ DOMAIN shifts_worked = DOMAIN users
               /\ \A s \in DOMAIN users :
                    shifts_worked[s] >= ListedCount(Working, s))

\* C23 witness: in a finished run one member was dropped from a shift, so the
\* counter stands above the member's listings, and another member was newly
\* accepted and the counter went up with the listings.
DroppedStillCounted ==
    /\ Done
    /\ \E s \in DOMAIN users :
         /\ ListedCount(Output, s) < ListedCount(Input, s)
         /\ shifts_worked[s] > ListedCount(Output, s)
    /\ \E t \in DOMAIN users :
         /\ ListedCount(Output, t) > ListedCount(Input, t)
         /\ shifts_worked[t] = ListedCount(Output, t)

\* C24: a roster member who comes with at least as many assignments as the
\* cap (also with exactly as many) is on no shift of the output: the run drops
\* the member from every shift and never picks the member as a candidate.
AtCapMembersRemoved ==
    Done => \A s \in DOMAIN users :
        ListedCount(Input, s) >= CapOf(s) => ListedCount(Output, s) = 0

\* C24 witness: a member listed on two shifts with cap 2, each assignment legal
\* by itself, is on neither shift in the output.
AtCapMemberDropped ==
    /\ Done
    /\ \E s \in DOMAIN users :
         /\ CapOf(s) = 2
         /\ ListedCount(Input, s) = CapOf(s)
         /\ \A k \in ListedIn(Input, s) : LegalInInput(k, s)
         /\ ListedCount(Output, s) = 0

(***************************************************************************)
(* A slot that was found, and the staffing that follows.                   *)
(***************************************************************************)
\* The roster members the score of a slot counts: under their cap and with a
\* window that covers the slot.
CountedAt(x) == {s \in DOMAIN users : shifts_worked[s] < CapOf(s) /\ Covers(s, x)}

\* C25: when _find_best_slot returns a slot, the staff its score counts are
\* exactly the staff eligible for the shift at that slot (nobody has an
\* overlapping assignment there, the slot being collision-free), and if no
\* two of them are in conflict the _assign_shift_balanced that follows leaves
\* the shift with at least required_staff assignees.
FoundSlotIsStaffed ==
    [][(FlexiblePending /\ SlotFound # NoSlot)
          => LET x == SlotAsShift(SlotFound)
             IN  /\ CountedAt(x) = EligibleAt(x)
                 /\ Cardinality(CountedAt(x)) >= PendingShift.required_staff
                 /\ (\A a, b \in EligibleAt(x) : ~Registered(a, b))
                        => Len(PendingAfter.assigned_users)
                               >= PendingShift.required_staff
      ]_vars

\* C25 witness: a flexible shift that requires two came unstaffed, was moved
\* next to a fixed shift that one of the two eligible staff works, and is
\* returned with both.
MovedAndFullyStaffed ==
    /\ Done
    /\ \E k \in 1..Len(Output) : \E j \in 1..Len(Output) : \E s \in DOMAIN users :
         /\ Relocated(k) /\ Placement(Output[k]) # Placement(Input[k])
         /\ Input[k].required_staff = 2 /\ Input[k].assigned_users = <<>>
         /\ Len(Output[k].assigned_users) = 2
         /\ j # k /\ Output[j].day = Output[k].day
         /\ Lists(Output, j, s) /\ Lists(Output, k, s)

(***************************************************************************)
(* The relocated shifts in the output.                                     *)
(***************************************************************************)
ShiftsCollide(x, y) == x.day = y.day /\ WindowsOverlap(x, y)

\* C26: in the output a flexible shift for which _find_best_slot returned a
\* slot overlaps no other shift: no fixed one, no flexible one relocated
\* before or after it, and no flexible one left at its prior placement.
RelocatedShiftsDisjoint ==
    Done => \A k \in 1..Len(Output) :
        Relocated(k) => \A j \in 1..Len(Output) :
            j # k => ~ShiftsCollide(Output[k], Output[j])

\* C26 witness: two flexible shifts that overlapped in the input were both
\* relocated and are returned on the same day, beside a fixed shift.
TwoRelocatedSameDay ==
    /\ Done
    /\ \E k \in 1..Len(Output) : \E j \in 1..Len(Output) : \E f \in 1..Len(Output) :
         /\ k < j /\ Relocated(k) /\ Relocated(j)
         /\ ShiftsCollide(Input[k], Input[j])
         /\ Output[k].day = Output[j].day
         /\ Placement(Output[k]) # Placement(Input[k])
         /\ Placement(Output[j]) # Placement(Input[j])
         /\ Input[f].shift_type = FIXED

\* C26 witness, continued: a flexible shift was relocated and another one, for
\* which no slot was found, stayed where it was.
RelocatedBesideUnplaced ==
    /\ Done
    /\ \E k \in 1..Len(Output) : \E j \in 1..Len(Output) :
         /\ k # j /\ Relocated(k)
         /\ Input[j].shift_type = FLEXIBLE /\ best_slots[j] = NoSlot
         /\ Output[k].day = Output[j].day

(***************************************************************************)
(* A valid schedule of fixed shifts.                                       *)
(***************************************************************************)
\* Only fixed shifts, each with exactly required_staff assignees, every
\* assignment legal, and everybody listed less often than the cap.
ValidFixedSchedule ==
    /\ \A k \in 1..Len(Input) : Input[k].shift_type = FIXED
    /\ FullyAndValidlyStaffed
    /\ \A s \in DOMAIN users : ListedCount(Input, s) < CapOf(s)

\* C27: for an input of fixed shifts only, each with exactly required_staff
\* valid assignees and every staff member strictly below the cap, the run
\* returns a list equal to the input, with the same assignees in the same
\* order on every shift, whatever the tie-breaks.
FixedPointBelowCap ==
    (Done /\ ValidFixedSchedule)
        => /\ Output = Input
           /\ \A k \in 1..Len(Output) :
                Output[k].assigned_users = Input[k].assigned_users

\* C27 witness: a finished run on two fully staffed fixed shifts, the first
\* with B and A in this order, all below the cap, returned as they came.
ValidScheduleReturned ==
    /\ Done
    /\ ValidFixedSchedule
    /\ Len(Input) = 2
    /\ Input[1].assigned_users = <<"B", "A">>
    /\ Input[2].assigned_users # <<>>
    /\ Output = Input

(***************************************************************************)
(* The slot search and the placement the shift comes with.                 *)
(***************************************************************************)
\* Other placements <<day, start minute>> the pending shift could come with.
OtherStarts == { <<0, 0>>, <<1, 14 * 60>>, <<6, 11 * 60 + 30>> }

\* The working list with the pending shift standing at another placement.
WorkingWith(x) == [Working EXCEPT ![flexible_shifts[xi + 1]] = x]

\* C28: _find_best_slot returns the same result wherever the shift being
\* placed stands (same id, duration, required_staff, other shifts, roster and
\* counter), the result is the same in every continuation, and the call
\* changes neither the working list nor the counter: the step that makes it
\* leaves every other shift as it was, changes only the placement and the
\* assignees of the shift itself, and raises the counter only for the staff
\* the assignment adds.
SlotIndependentOfPlacement ==
    [][FlexiblePending
          => LET k == flexible_shifts[xi + 1]
                 found == SlotFound
             IN  /\ \A p \in OtherStarts :
                        find_best_slot(users, PlacedAt(p[1], p[2]), shifts_worked,
                                       WorkingWith(PlacedAt(p[1], p[2]))) = found
                 /\ best_slots'[k] = found
                 /\ scheduled_shifts' = scheduled_shifts
                 /\ \A j \in 1..Len(Working) :
                        j # k => heap'[scheduled_shifts[j]] = Working[j]
                 /\ [PendingAfter EXCEPT !.assigned_users = <<>>]
                        = [move_to(PendingShift, found) EXCEPT !.assigned_users = <<>>]
                 /\ \A s \in DOMAIN users :
                        shifts_worked'[s] # shifts_worked[s]
                            => /\ Lists(<<PendingAfter>>, 1, s)
                               /\ ~Lists(<<PendingShift>>, 1, s)
      ]_vars

\* C28 witness: a flexible shift beside another shift is about to be placed,
\* the search returns a slot away from where it stands, and returns the same
\* slot with the shift standing at each of the other placements.
SameSlotFromElsewhere ==
    /\ FlexiblePending
    /\ Len(Working) >= 2
    /\ LET found == SlotFound
       IN  /\ found # NoSlot
           /\ found # Placement(PendingShift)
           /\ \A p \in OtherStarts :
                /\ Placement(PlacedAt(p[1], p[2])) # Placement(PendingShift)
                /\ find_best_slot(users, PlacedAt(p[1], p[2]), shifts_worked,
                                  WorkingWith(PlacedAt(p[1], p[2]))) = found

(***************************************************************************)
(* Availability.                                                           *)
(***************************************************************************)
\* The windows registered for a day: none if the day is not in the mapping.
WindowsOn(s, day) ==
    IF day \in DOMAIN users[s].availability THEN users[s].availability[day] ELSE <<>>

WindowContains(w, from, to) ==
    /\ w.start_hour * 60 + w.start_minute <= from
    /\ w.end_hour * 60 + w.end_minute >= to

\* C29: is_available(day, [s, e)) returns true exactly if one window
\* registered for the day has start <= s and end >= e; a request covered only
\* by two adjacent or overlapping windows together (09:00-13:00 against
\* 09:00-12:00 and 12:00-17:00) is not available, and neither is anything on a
\* day without windows or missing from the mapping.
SingleWindowContainment ==
    \A j \in 1..Len(calls) :
        calls[j][1] = "is_available" =>
            LET w == calls[j][2]
                returned == calls[j][3]
                from == w[2] * 60 + w[3]
                to == w[4] * 60 + w[5]
                windows == WindowsOn("A", w[1])
            IN  /\ returned = (\E k \in 1..Len(windows) :
                                  WindowContains(windows[k], from, to))
                /\ (users["A"].availability = MonAdjacent /\ w = <<0, 9, 0, 13, 0>>)
                       => returned = FALSE
                /\ (\A k \in 1..Len(windows) : ~WindowContains(windows[k], from, to))
                       => returned = FALSE
                /\ (w[1] \notin DOMAIN users["A"].availability \/ windows = <<>>)
                       => returned = FALSE

\* C29 witness: the user has the windows 09:00-12:00 and 12:00-17:00 on
\* Monday and was asked for Monday 09:00-13:00: not available.
AdjacentWindowsNotJoined ==
    /\ users["A"].availability = MonAdjacent
    /\ calls = << <<"is_available", <<0, 9, 0, 13, 0>>, FALSE>> >>

\* C29 witness, continued: a request inside one of two overlapping windows
\* is available.
OneWindowSuffices ==
    /\ users["A"].availability = MonOverlapping
    /\ calls = << <<"is_available", <<0, 12, 0, 17, 0>>, TRUE>> >>

\* C29 witness, continued: Monday is missing from the mapping.
MissingDayUnavailable ==
    /\ users["A"].availability = TueWhole
    /\ calls = << <<"is_available", <<0, 9, 0, 12, 0>>, FALSE>> >>

NamesOf(list) == UNION {Range(list[k].assigned_users) : k \in 1..Len(list)}

\* C30: in the application, started with no data, every name in the list of
\* a shift and in a conflict pair is a key of the roster, whatever handlers
\* have run; a handler that takes a name out of the roster takes it out of
\* every list and every pair (deletion), or puts the new name of the user in
\* its place in both (renaming), unless it replaces all the data by the
\* sample data.
ReferentialIntegrity ==
    /\ [](/\ NamesOf(AppShifts) \subseteq DOMAIN users
          /\ \A p \in conflict_pairs : p[1] \in DOMAIN users /\ p[2] \in DOMAIN users)
    /\ [][\A name \in DOMAIN users \ DOMAIN users' :
            calls' = << <<"_load_sample_data">> >> \/
            LET new == DOMAIN users' \ DOMAIN users
                named(n) == IF n = name /\ new # {} THEN CHOOSE m \in new : TRUE
                            ELSE n
            IN  /\ Cardinality(new) <= 1
                /\ Len(AppShifts') = Len(AppShifts)
                /\ \A k \in 1..Len(AppShifts) :
                       Range(AppShifts'[k].assigned_users) =
                           {named(n) : n \in Range(AppShifts[k].assigned_users)
                                           \ (IF new = {} THEN {name} ELSE {})}
                /\ conflict_pairs' =
                       {<<named(p[1]), named(p[2])>> :
                            p \in {q \in conflict_pairs :
                                       new # {} \/ (q[1] # name /\ q[2] # name)}}
        ]_vars

UserDeletedEverywhere ==
    /\ \E name \in TypedNames : calls = << <<"_delete_user", name, TRUE, TRUE>> >>
    /\ DOMAIN users # {}
    /\ Len(AppShifts) > 0

UserRenamedEverywhere ==
    \E name \in TypedNames, new_name \in TypedNames :
        /\ calls = << <<"_edit_user", name, new_name, TRUE, TRUE>> >>
        /\ \E p \in conflict_pairs : p[1] = new_name \/ p[2] = new_name
        /\ new_name \in NamesOf(AppShifts)

\* A schedule made by the application for two users who then lost a member.
ScheduleAdoptedThenDeleted ==
    /\ \E name \in TypedNames : calls = << <<"_delete_user", name, TRUE, FALSE>> >>
    /\ \E k \in 1..Len(AppShifts) :
           /\ AppShifts[k].shift_type = FLEXIBLE
           /\ <<AppShifts[k].day, AppShifts[k].start_hour>> # <<0, 9>>
           /\ Len(AppShifts[k].assigned_users) = 1

====
